---- MODULE Spec2Model ----
(***************************************************************************)
(* TrailBuddy reel cache: the key derivation, the two storage backends     *)
(* (LocalFileStorage, SupabaseR2Storage), the video downloader and the     *)
(* fetch-or-serve pipeline extract_reel_data, modelled from                *)
(* src/storage_backend.py and src/backend_api.py.                          *)
(*                                                                         *)
(* Python values: None is the string "None"; a dict is a function from its *)
(* key strings to values; a list is a sequence; a URL or a key is a        *)
(* sequence of one-character strings, so that the regular expression and   *)
(* the MD5 digest of extract_reel_id_from_url are computed, not assumed.   *)
(***************************************************************************)
EXTENDS Integers, Sequences, FiniteSets, TLC

None == "None"

(***************************************************************************)
(* Characters.  Printable is the printable ASCII range 32..126 in code     *)
(* order, so Ord(c) is the byte str.encode() yields for the character.     *)
(* Code 96 (the grave accent) cannot be written in a string of this        *)
(* language; its place is held by "<96>", which no URL character equals.   *)
(***************************************************************************)
Printable ==
  << " ", "!", "\"", "#", "$", "%", "&", "'", "(", ")", "*", "+", ",", "-", ".", "/",
     "0", "1", "2", "3", "4", "5", "6", "7", "8", "9", ":", ";", "<", "=", ">", "?",
     "@", "A", "B", "C", "D", "E", "F", "G", "H", "I", "J", "K", "L", "M", "N", "O",
     "P", "Q", "R", "S", "T", "U", "V", "W", "X", "Y", "Z", "[", "\\", "]", "^", "_",
     "<96>", "a", "b", "c", "d", "e", "f", "g", "h", "i", "j", "k", "l", "m", "n", "o",
     "p", "q", "r", "s", "t", "u", "v", "w", "x", "y", "z", "{", "|", "}", "~" >>

Ord(c) == 31 + (CHOOSE i \in 1..Len(Printable) : Printable[i] = c)

Encode(s) == [i \in 1..Len(s) |-> Ord(s[i])] \o << >>

IsDigit(c) == Ord(c) >= 48 /\ Ord(c) <= 57
IsUpper(c) == Ord(c) >= 65 /\ Ord(c) <= 90
IsLower(c) == Ord(c) >= 97 /\ Ord(c) <= 122

\* The character class [A-Za-z0-9_-] of the pattern.
IdChar(c) == IsDigit(c) \/ IsUpper(c) \/ IsLower(c) \/ c = "_" \/ c = "-"

(***************************************************************************)
(* hashlib.md5 (RFC 1321).  A 32-bit word is a sequence of 32 bits, least  *)
(* significant first, so additions wrap at 2^32 by dropping the carry.     *)
(***************************************************************************)
WordSize == 32

Pow2 ==
  << 1, 2, 4, 8, 16, 32, 64, 128, 256, 512, 1024, 2048, 4096, 8192, 16384, 32768 >>

\* TLC keeps a function constructor unevaluated; concatenation makes it a tuple.
Tuple(f) == f \o << >>

\* The low `width' bits of n (width <= 16), least significant first.
BitsOf(n, width) == Tuple([k \in 1..width |-> (n \div Pow2[k]) % 2])

\* A word from its high and low 16-bit halves.
Word(hi, lo) == BitsOf(lo, 16) \o BitsOf(hi, 16)

\* The 16 bits of word a after bit position off, as a number.
Half(a, off) ==
  a[off + 1] + 2 * a[off + 2] + 4 * a[off + 3] + 8 * a[off + 4]
    + 16 * a[off + 5] + 32 * a[off + 6] + 64 * a[off + 7] + 128 * a[off + 8]
    + 256 * a[off + 9] + 512 * a[off + 10] + 1024 * a[off + 11] + 2048 * a[off + 12]
    + 4096 * a[off + 13] + 8192 * a[off + 14] + 16384 * a[off + 15] + 32768 * a[off + 16]

\* Addition modulo 2^32: the carry out of the high half is dropped.
Add32(a, b) ==
  LET lo == Half(a, 0) + Half(b, 0)
      hi == Half(a, 16) + Half(b, 16) + (lo \div 65536)
  IN  Word(hi % 65536, lo % 65536)

And32(a, b) == Tuple([i \in 1..WordSize |-> a[i] * b[i]])
Or32(a, b)  == Tuple([i \in 1..WordSize |-> IF a[i] + b[i] > 0 THEN 1 ELSE 0])
Xor32(a, b) == Tuple([i \in 1..WordSize |-> (a[i] + b[i]) % 2])
Not32(a)    == Tuple([i \in 1..WordSize |-> 1 - a[i]])

\* Rotate left by n: bit j of the result is bit j - n of the argument.
RotL32(a, n) ==
  Tuple([i \in 1..WordSize |-> a[((i - 1 - n + WordSize) % WordSize) + 1]])

\* Per-round shift amounts.
MD5Shift ==
  << 7, 12, 17, 22, 7, 12, 17, 22, 7, 12, 17, 22, 7, 12, 17, 22,
     5,  9, 14, 20, 5,  9, 14, 20, 5,  9, 14, 20, 5,  9, 14, 20,
     4, 11, 16, 23, 4, 11, 16, 23, 4, 11, 16, 23, 4, 11, 16, 23,
     6, 10, 15, 21, 6, 10, 15, 21, 6, 10, 15, 21, 6, 10, 15, 21 >>

\* floor(2^32 * abs(sin(i))) for i = 1..64, as <<high half, low half>>.
MD5Sine ==
  << <<55146, 42104>>, <<59591, 46934>>, <<9248, 28891>>,  <<49597, 52974>>,
     <<62844, 4015>>,  <<18311, 50730>>, <<43056, 17939>>, <<64838, 38145>>,
     <<27008, 39128>>, <<35652, 63407>>, <<65535, 23473>>, <<35164, 55230>>,
     <<27536, 4386>>,  <<64920, 29075>>, <<42617, 17294>>, <<18868, 2081>>,
     <<63006, 9570>>,  <<49216, 45888>>, <<9822, 23121>>,  <<59830, 51114>>,
     <<54831, 4189>>,  <<580, 5203>>,    <<55457, 59009>>, <<59347, 64456>>,
     <<8673, 52710>>,  <<49975, 2006>>,  <<62677, 3463>>,  <<17754, 5357>>,
     <<43491, 59653>>, <<64751, 41976>>, <<26479, 729>>,   <<36138, 19594>>,
     <<65530, 14658>>, <<34673, 63105>>, <<28061, 24866>>, <<64997, 14348>>,
     <<42174, 59972>>, <<19422, 53161>>, <<63163, 19296>>, <<48831, 48240>>,
     <<10395, 32454>>, <<60065, 10234>>, <<54511, 12421>>, <<1160, 7429>>,
     <<55764, 53305>>, <<59099, 39397>>, <<8098, 31992>>,  <<50348, 22117>>,
     <<62505, 8772>>,  <<17194, 65431>>, <<43924, 9127>>,  <<64659, 41017>>,
     <<25947, 22979>>, <<36620, 52370>>, <<65519, 62589>>, <<34180, 24017>>,
     <<28584, 32335>>, <<65068, 59104>>, <<41729, 17172>>, <<19976, 4513>>,
     <<63315, 32386>>, <<48442, 62005>>, <<10967, 53947>>, <<60294, 54161>> >>

MD5Init ==
  << Word(26437, 8961), Word(61389, 43913), Word(39098, 56574), Word(4146, 21622) >>

\* The message padded to a multiple of 64 bytes: 0x80, zeros, the bit length as
\* 8 little-endian bytes.
MD5Pad(bytes) ==
  LET n     == Len(bytes)
      zeros == (119 - (n % 64)) % 64
      bits  == n * 8
  IN  bytes \o << 128 >> \o [i \in 1..zeros |-> 0]
        \o << bits % 256, (bits \div 256) % 256, (bits \div 65536) % 256, 0, 0, 0, 0, 0 >>

\* Word g (0..15) of the 64-byte block starting after offset off.
MD5MsgWord(padded, off, g) ==
  BitsOf(padded[off + 4 * g + 1], 8) \o BitsOf(padded[off + 4 * g + 2], 8)
    \o BitsOf(padded[off + 4 * g + 3], 8) \o BitsOf(padded[off + 4 * g + 4], 8)

\* One of the 64 operations: st = <<A, B, C, D>>, i in 0..63.
MD5Step(st, padded, off, i) ==
  LET A == st[1]
      B == st[2]
      C == st[3]
      D == st[4]
      F == IF i < 16 THEN Or32(And32(B, C), And32(Not32(B), D))
           ELSE IF i < 32 THEN Or32(And32(D, B), And32(Not32(D), C))
           ELSE IF i < 48 THEN Xor32(Xor32(B, C), D)
           ELSE Xor32(C, Or32(B, Not32(D)))
      g == IF i < 16 THEN i
           ELSE IF i < 32 THEN (5 * i + 1) % 16
           ELSE IF i < 48 THEN (3 * i + 5) % 16
           ELSE (7 * i) % 16
      K == Word(MD5Sine[i + 1][1], MD5Sine[i + 1][2])
      T == Add32(Add32(Add32(F, A), K), MD5MsgWord(padded, off, g))
  IN  << D, Add32(B, RotL32(T, MD5Shift[i + 1])), B, C >>

\* The n operations i..i+n-1 in order (n a power of two), as the first half
\* followed by the second.  The state between the halves is bound as the
\* element of a singleton set, so that it is a value when the second half
\* reads its four words.
RECURSIVE MD5Steps(_, _, _, _, _)
MD5Steps(st, padded, off, i, n) ==
  IF n = 1 THEN MD5Step(st, padded, off, i)
  ELSE CHOOSE r \in { MD5Steps(s, padded, off, i + (n \div 2), n \div 2) :
                      s \in { MD5Steps(st, padded, off, i, n \div 2) } } : TRUE

\* The 64 operations on one block.
MD5Rounds(h, padded, off) == MD5Steps(h, padded, off, 0, 64)

\* The four words after the 64 operations on one block, added to h.
MD5Block(h, padded, off) ==
  CHOOSE r \in { << Add32(h[1], t[1]), Add32(h[2], t[2]), Add32(h[3], t[3]), Add32(h[4], t[4]) >> :
                 t \in { MD5Rounds(h, padded, off) } } : TRUE

RECURSIVE MD5Blocks(_, _, _)
MD5Blocks(h, padded, off) ==
  IF off >= Len(padded) THEN h
  ELSE CHOOSE r \in { MD5Blocks(g, padded, off + 64) :
                      g \in { MD5Block(h, padded, off) } } : TRUE

HexDigits ==
  << "0", "1", "2", "3", "4", "5", "6", "7", "8", "9", "a", "b", "c", "d", "e", "f" >>

\* Bits 4k+1..4k+4 of a word as a number 0..15.
Nibble(w, k) == w[4 * k + 1] + 2 * w[4 * k + 2] + 4 * w[4 * k + 3] + 8 * w[4 * k + 4]

\* A word's 4 bytes in little-endian order, each as two hex digits, high first.
WordHex(w) ==
  << HexDigits[Nibble(w, 1) + 1], HexDigits[Nibble(w, 0) + 1],
     HexDigits[Nibble(w, 3) + 1], HexDigits[Nibble(w, 2) + 1],
     HexDigits[Nibble(w, 5) + 1], HexDigits[Nibble(w, 4) + 1],
     HexDigits[Nibble(w, 7) + 1], HexDigits[Nibble(w, 6) + 1] >>

md5_hexdigest(s) ==
  CHOOSE r \in { WordHex(h[1]) \o WordHex(h[2]) \o WordHex(h[3]) \o WordHex(h[4]) :
                 h \in { MD5Blocks(MD5Init, m, 0) : m \in { MD5Pad(Encode(s)) } } } : TRUE

HashLen == 12

(***************************************************************************)
(* extract_reel_id_from_url: re.search(r'/(reel|p)/([A-Za-z0-9_-]+)', url) *)
(* finds the leftmost position where the pattern matches and group 2 is    *)
(* the longest run of identifier characters there; without a match, the    *)
(* first 12 hex digits of the MD5 of the URL.                              *)
(***************************************************************************)
StartsWith(s, i, lit) ==
  /\ i + Len(lit) - 1 <= Len(s)
  /\ \A j \in 1..Len(lit) : s[i + j - 1] = lit[j]

\* A pattern with the /reel/ marker only.
MatchAt_ReelOnly(s, i) ==
  IF StartsWith(s, i, << "/", "r", "e", "e", "l", "/" >>) /\ i + 6 <= Len(s) /\ IdChar(s[i + 6])
  THEN i + 6
  ELSE 0

\* Where group 2 starts if the pattern matches at position i, else 0.
MatchAt(s, i) ==
  LET g == IF StartsWith(s, i, << "/", "r", "e", "e", "l", "/" >>) THEN i + 6
           ELSE IF StartsWith(s, i, << "/", "p", "/" >>) THEN i + 3
           ELSE 0
  IN  IF g > 0 /\ g <= Len(s) /\ IdChar(s[g]) THEN g ELSE 0

\* A group 2 that runs to the next "/" or "?".
RECURSIVE IdRun_ToDelimiter(_, _)
IdRun_ToDelimiter(s, i) ==
  IF i <= Len(s) /\ s[i] # "/" /\ s[i] # "?"
  THEN << s[i] >> \o IdRun_ToDelimiter(s, i + 1)
  ELSE << >>

RECURSIVE IdRun(_, _)
IdRun(s, i) ==
  IF i <= Len(s) /\ IdChar(s[i]) THEN << s[i] >> \o IdRun(s, i + 1) ELSE << >>

RECURSIVE Search(_, _)
Search(s, i) ==
  IF i > Len(s) THEN << >>
  ELSE IF MatchAt(s, i) > 0 THEN IdRun(s, MatchAt(s, i))
  ELSE Search(s, i + 1)

\* A derivation that returns the whole digest.
extract_reel_id_from_url_FullDigest(reel_url) ==
  IF Search(reel_url, 1) # << >> THEN Search(reel_url, 1) ELSE md5_hexdigest(reel_url)

extract_reel_id_from_url(reel_url) ==
  IF Search(reel_url, 1) # << >> THEN Search(reel_url, 1)
  ELSE SubSeq(md5_hexdigest(reel_url), 1, HashLen)

(***************************************************************************)
(* The URLs of the model and their spelling.  A URL is a string in the     *)
(* state; Chars gives its characters, which is what the key derivation     *)
(* reads.  ReelUrl and PostUrl embed the same identifier; ShareUrl has no  *)
(* /reel/ or /p/ segment and is keyed by its hash.                         *)
(***************************************************************************)
ReelUrl  == "https://x.test/reel/ABC123/"
PostUrl  == "https://x.test/p/ABC123?igsh=1"
ShareUrl == "https://x.test/share?id=999"

Urls == { ReelUrl, PostUrl, ShareUrl }

Chars(u) ==
  CASE u = ReelUrl ->
         << "h", "t", "t", "p", "s", ":", "/", "/", "x", ".", "t", "e", "s", "t",
            "/", "r", "e", "e", "l", "/", "A", "B", "C", "1", "2", "3", "/" >>
    [] u = PostUrl ->
         << "h", "t", "t", "p", "s", ":", "/", "/", "x", ".", "t", "e", "s", "t",
            "/", "p", "/", "A", "B", "C", "1", "2", "3", "?", "i", "g", "s", "h",
            "=", "1" >>
    [] u = ShareUrl ->
         << "h", "t", "t", "p", "s", ":", "/", "/", "x", ".", "t", "e", "s", "t",
            "/", "s", "h", "a", "r", "e", "?", "i", "d", "=", "9", "9", "9" >>

\* The string spelled by the characters i.. of a sequence.
RECURSIVE JoinFrom(_, _)
JoinFrom(cs, i) == IF i > Len(cs) THEN "" ELSE cs[i] \o JoinFrom(cs, i + 1)

Join(cs) == CHOOSE r \in { JoinFrom(c, 1) : c \in { cs } } : TRUE

\* The cache key of each URL of the model.
KeyOf == [u \in Urls |-> Join(extract_reel_id_from_url(Chars(u)))] @@ << >>

Keys == { KeyOf[u] : u \in Urls }

(***************************************************************************)
(* Python dicts and JSON.                                                  *)
(***************************************************************************)
\* dict.get(k, default)
Get(d, k, default) == IF k \in DOMAIN d THEN d[k] ELSE default

\* d with d[k] = v
Put(d, k, v) == [x \in DOMAIN d \cup {k} |-> IF x = k THEN v ELSE d[x]]

\* d without k
Drop(d, k) == [x \in DOMAIN d \ {k} |-> d[x]]

EmptyDict == [x \in {} |-> None]

\* The keys a record dict may hold, in the order extract_reel_data inserts them
\* (a dict is written out in insertion order), then the keys get_metadata adds.
FieldOrder ==
  << "url", "reel_id", "caption", "hashtags", "location", "likes", "timestamp",
     "owner_username", "video_url", "display_url", "_from_cache",
     "r2_video_key", "_cached_at" >>

ListFields == { "hashtags" }
IntFields  == { "likes" }
BoolFields == { "_from_cache" }

\* The tokens of one value.  A token is <<tag, payload>>.
RECURSIVE ListTokens(_, _)
ListTokens(xs, i) ==
  IF i > Len(xs) THEN << >> ELSE << << "str", xs[i] >> >> \o ListTokens(xs, i + 1)

ValueTokens(k, v) ==
  IF k \in ListFields THEN << << "[", "" >> >> \o ListTokens(v, 1) \o << << "]", "" >> >>
  ELSE IF k \in IntFields THEN << << "int", v >> >>
  ELSE IF k \in BoolFields THEN << << "bool", v >> >>
  ELSE IF v = None THEN << << "null", None >> >>
  ELSE << << "str", v >> >>

RECURSIVE MemberTokens(_, _)
MemberTokens(d, i) ==
  IF i > Len(FieldOrder) THEN << >>
  ELSE (IF FieldOrder[i] \in DOMAIN d
        THEN << << "key", FieldOrder[i] >> >> \o ValueTokens(FieldOrder[i], d[FieldOrder[i]])
        ELSE << >>)
       \o MemberTokens(d, i + 1)

\* json.dump(d, f): the document as the sequence of its tokens.
json_dump(d) == << << "{", "" >> >> \o MemberTokens(d, 1) \o << << "}", "" >> >>

\* The elements of a list from token i on: <<ok, list, index after "]">>.
RECURSIVE ParseList(_, _, _)
ParseList(toks, i, acc) ==
  IF i > Len(toks) THEN << FALSE, acc, i >>
  ELSE IF toks[i][1] = "]" THEN << TRUE, acc, i + 1 >>
  ELSE IF toks[i][1] = "str" THEN ParseList(toks, i + 1, Append(acc, toks[i][2]))
  ELSE << FALSE, acc, i >>

\* The members of an object from token i on: <<ok, dict>>.  The document is
\* well formed only if "}" is its last token.
RECURSIVE ParseMembers(_, _, _)
ParseMembers(toks, i, acc) ==
  IF i > Len(toks) THEN << FALSE, acc >>
  ELSE IF toks[i][1] = "}" THEN << i = Len(toks), acc >>
  ELSE IF toks[i][1] # "key" \/ i + 1 > Len(toks) THEN << FALSE, acc >>
  ELSE IF toks[i + 1][1] \in { "str", "int", "bool", "null" }
       THEN ParseMembers(toks, i + 2, Put(acc, toks[i][2], toks[i + 1][2]))
  ELSE IF toks[i + 1][1] = "["
       THEN LET l == ParseList(toks, i + 2, << >>)
            IN  IF l[1] THEN ParseMembers(toks, l[3], Put(acc, toks[i][2], l[2]))
                ELSE << FALSE, acc >>
  ELSE << FALSE, acc >>

\* A json.load that loses the "hashtags" member.
json_load_NoHashtags(toks) ==
  IF toks = << >> \/ toks[1][1] # "{" THEN [kind |-> "raise", exc |-> "JSONDecodeError"]
  ELSE LET m == ParseMembers(toks, 2, EmptyDict)
       IN  IF m[1] THEN [kind |-> "dict", value |-> Drop(m[2], "hashtags")]
           ELSE [kind |-> "raise", exc |-> "JSONDecodeError"]

\* json.load(f): the dict, or JSONDecodeError for anything but a whole document.
json_load(toks) ==
  IF toks = << >> \/ toks[1][1] # "{" THEN [kind |-> "raise", exc |-> "JSONDecodeError"]
  ELSE LET m == ParseMembers(toks, 2, EmptyDict)
       IN  IF m[1] THEN [kind |-> "dict", value |-> m[2]]
           ELSE [kind |-> "raise", exc |-> "JSONDecodeError"]

(***************************************************************************)
(* The bytes of a document as json.dump(d, f, indent=2) lays it out: every *)
(* member on a line of its own indented by two spaces, every element of a  *)
(* non-empty list on a line of its own indented by four, "," between       *)
(* members and between elements, ": " after a key.  A token <<"rest", n>>  *)
(* stands for n bytes, the end of a token cut in two, that an earlier,     *)
(* longer content of the file left behind what was written over it.        *)
(***************************************************************************)
RECURSIVE Digits(_)
Digits(n) == IF n < 10 THEN 1 ELSE 1 + Digits(n \div 10)

\* The bytes token i takes in the file, the separators before it included.
TokenBytes(toks, i) ==
  LET kind == toks[i][1]
      prev == IF i > 1 THEN toks[i - 1][1] ELSE ""
  IN  CASE kind = "{"    -> 1
        [] kind = "}"    -> IF prev = "{" THEN 1 ELSE 2
        [] kind = "key"  -> (IF prev = "{" THEN 0 ELSE 1) + 3 + Len(toks[i][2]) + 2 + 2
        [] kind = "["    -> 1
        [] kind = "]"    -> IF prev = "[" THEN 1 ELSE 4
        [] kind = "str"  -> IF prev = "key" THEN Len(toks[i][2]) + 2
                            ELSE (IF prev = "[" THEN 0 ELSE 1) + 5 + Len(toks[i][2]) + 2
        [] kind = "int"  -> Digits(toks[i][2])
        [] kind = "bool" -> IF toks[i][2] THEN 4 ELSE 5
        [] kind = "null" -> 4
        [] kind = "rest" -> toks[i][2]

RECURSIVE BytesFrom(_, _)
BytesFrom(toks, i) == IF i > Len(toks) THEN 0 ELSE TokenBytes(toks, i) + BytesFrom(toks, i + 1)

\* The size of the file in bytes.
ByteLen(toks) == BytesFrom(toks, 1)

\* The tokens of the file that begin right after its first n bytes, when a
\* token ends there: the set of the one k with the first k tokens n bytes long.
TokensEndingAt(file, n) ==
  { k \in 1..Len(file) : ByteLen(SubSeq(file, 1, k)) = n }

\* A file object opened with 'w' some time ago writes doc and is closed: the
\* bytes go to offset 0 of what the file holds by now, and what lies beyond
\* them stays.  Where doc ends at the end of a token of the file, and the
\* tokens after it take the same bytes behind doc as they did before, the
\* file reads as doc followed by these tokens; otherwise what is left is the
\* broken end of a token, kept as so many bytes.
WriteFromStart(file, doc) ==
  IF ByteLen(file) <= ByteLen(doc) THEN doc
  ELSE LET ks      == TokensEndingAt(file, ByteLen(doc))
           spliced == IF ks = {} THEN doc
                      ELSE doc \o SubSeq(file, (CHOOSE k \in ks : TRUE) + 1, Len(file))
       IN  IF ks # {} /\ ByteLen(spliced) = ByteLen(file)
           THEN spliced
           ELSE Append(doc, << "rest", ByteLen(file) - ByteLen(doc) >>)

(***************************************************************************)
(* Files and blobs.  The content of a video file or of a stored object is  *)
(* [src, part]: the remote video it was read from and whether all of it    *)
(* ("all"), a truncated part ("some") or nothing yet ("none") was written. *)
(* A local path of a temporary file is a positive number; NoPath stands    *)
(* for video_path = None.                                                  *)
(***************************************************************************)
NoPath == 0

EmptyFile == [src |-> "", part |-> "none"]

Whole(video_url) == [src |-> video_url, part |-> "all"]

Truncated(content) == [src |-> content.src, part |-> IF content.part = "none" THEN "none" ELSE "some"]

\* The length of a remote video, in chunks: the video of the later upstream
\* answer is the longer one.
VideoSize(src) == IF src = "https://cdn.test/v2.mp4" THEN 2 ELSE 1

\* The length of a file: part "other" is the video of src followed by the end
\* of a longer content written before it.
Size(content) ==
  CASE content.part = "none"  -> 0
    [] content.part = "some"  -> VideoSize(content.src) - 1
    [] content.part = "all"   -> VideoSize(content.src)
    [] content.part = "other" -> VideoSize(content.src) + 1

\* A file object opened with 'wb' some time ago writes content from offset 0
\* of what the file holds by now.
CopyOver(file, content) ==
  IF Size(file) > Size(content) THEN [src |-> content.src, part |-> "other"] ELSE content

\* os.path.exists(video_path) for a path in the temporary directory.
PathExists(tmp, path) == path \in DOMAIN tmp

\* Python truthiness of a str-or-None value.
Truthy(v) == v # None /\ v # ""

(***************************************************************************)
(* download_video(video_url, output_path): requests.get, raise_for_status, *)
(* then the chunks written to output_path.  outcome says how far it gets:  *)
(* "ok"; "connect" (the request, or its status, fails before the file is   *)
(* opened); "stream" (open(output_path, 'wb') done, a chunk fails).        *)
(* Every exception is caught and False returned; the file is never removed.*)
(***************************************************************************)
DownloadOutcomes == { "ok", "connect", "stream" }

download_video(tmp, video_url, output_path, outcome) ==
  CASE outcome = "connect" -> [tmp |-> tmp, ret |-> FALSE]
    [] outcome = "stream"  ->
         [tmp |-> Put(tmp, output_path, Truncated(Whole(video_url))), ret |-> FALSE]
    [] outcome = "ok"      ->
         [tmp |-> Put(tmp, output_path, Whole(video_url)), ret |-> TRUE]

(***************************************************************************)
(* LocalFileStorage.  The cache root is fs = [dirs, files]: the reel       *)
(* directories under it, and the files as a function from                  *)
(* <<reel_id, file name>> to content.                                      *)
(***************************************************************************)
EmptyFs == [dirs |-> {}, files |-> [x \in {} |-> EmptyFile]]

MetadataFile(reel_id) == << reel_id, "metadata.json" >>
VideoFile(reel_id)    == << reel_id, "video.mp4" >>

\* _get_reel_dir: reel_dir.mkdir(exist_ok=True) creates the directory.
Local_get_reel_dir(fs, reel_id) == [fs EXCEPT !.dirs = @ \cup { reel_id }]

Local_exists(fs, reel_id) ==
  LET f == Local_get_reel_dir(fs, reel_id)
  IN  [fs |-> f, ret |-> MetadataFile(reel_id) \in DOMAIN f.files]

\* ret is [kind |-> "None"], [kind |-> "dict", value |-> d] or
\* [kind |-> "raise", exc |-> e]: json.load is not guarded.
Local_get_metadata(fs, reel_id) ==
  LET f == Local_get_reel_dir(fs, reel_id)
  IN  IF MetadataFile(reel_id) \notin DOMAIN f.files
      THEN [fs |-> f, ret |-> [kind |-> "None"]]
      ELSE [fs |-> f, ret |-> json_load(f.files[MetadataFile(reel_id)])]

\* fault: "none", or the step that raises: "mkdir" (_get_reel_dir), "open"
\* (open(..., 'w') of metadata.json, the directory being there by then),
\* "dump" (json.dump, after open(..., 'w') has emptied the file and DumpCut
\* tokens have been written), "copy" (shutil.copy part way).
DumpCut == 1

LocalSaveFaults == { "none", "mkdir", "open", "dump", "copy" }

\* Lines 372-381, f being the cache root once _get_reel_dir has run and doc the
\* document json.dump writes.
Local_write(f, tmp, reel_id, doc, video_path, fault) ==
  IF fault = "dump"
  THEN [fs  |-> [f EXCEPT !.files = Put(@, MetadataFile(reel_id), SubSeq(doc, 1, DumpCut))],
        ret |-> FALSE]
  ELSE IF video_path # NoPath /\ PathExists(tmp, video_path)
  THEN [fs  |-> [f EXCEPT !.files =
                   Put(Put(@, MetadataFile(reel_id), doc), VideoFile(reel_id),
                       IF fault = "copy" THEN Truncated(tmp[video_path]) ELSE tmp[video_path])],
        ret |-> fault # "copy"]
  ELSE [fs |-> [f EXCEPT !.files = Put(@, MetadataFile(reel_id), doc)], ret |-> TRUE]

Local_save_reel_data(fs, tmp, reel_id, metadata, video_path, fault) ==
  IF fault = "mkdir" THEN [fs |-> fs, ret |-> FALSE]
  ELSE IF fault = "open" THEN [fs |-> Local_get_reel_dir(fs, reel_id), ret |-> FALSE]
  ELSE Local_write(Local_get_reel_dir(fs, reel_id), tmp, reel_id, json_dump(metadata),
                   video_path, fault)

CacheDir == "cache"

\* str(video_path) if video_path.exists() else None
Local_get_video_url(fs, reel_id) ==
  LET f == Local_get_reel_dir(fs, reel_id)
  IN  [fs  |-> f,
       ret |-> IF VideoFile(reel_id) \in DOMAIN f.files
               THEN CacheDir \o "/" \o reel_id \o "/video.mp4"
               ELSE None]

(***************************************************************************)
(* SupabaseR2Storage.  rows is the table reel_cache, a function from the   *)
(* reel_id of each row to the row (a dict of its columns); bucket is the   *)
(* R2 bucket, a function from object key to content.  Each remote call     *)
(* either completes or raises; fault names the call that raises.           *)
(***************************************************************************)
EmptyRows   == [x \in {} |-> EmptyDict]
EmptyBucket == [x \in {} |-> EmptyFile]

\* The value the database gives the created_at column of an inserted row; the
\* table's definition is not part of the sources.
DbTimestamp == "created_at"

\* response.data of select(...).eq("reel_id", reel_id)
Select(rows, reel_id) == IF reel_id \in DOMAIN rows THEN << rows[reel_id] >> ELSE << >>

\* upsert(row, on_conflict="reel_id"): a new row gets the column defaults, an
\* existing row has the given columns overwritten.
\* An upsert that leaves an existing row as it is.
Upsert_KeepOld(rows, row) ==
  IF row["reel_id"] \in DOMAIN rows THEN rows
  ELSE Put(rows, row["reel_id"],
           [c \in DOMAIN row \cup { "created_at" } |->
              IF c \in DOMAIN row THEN row[c] ELSE DbTimestamp])

Upsert(rows, row) ==
  LET id  == row["reel_id"]
      old == IF id \in DOMAIN rows THEN rows[id] ELSE [x \in { "created_at" } |-> DbTimestamp]
  IN  Put(rows, id, [c \in DOMAIN old \cup DOMAIN row |-> IF c \in DOMAIN row THEN row[c] ELSE old[c]])

Hybrid_exists(rows, reel_id, fault) ==
  IF fault = "select" THEN FALSE ELSE Len(Select(rows, reel_id)) > 0

\* ret is [kind |-> "None"] or [kind |-> "dict", value |-> d]; an exception is
\* caught and None returned.
Hybrid_get_metadata(rows, reel_id, fault) ==
  IF fault = "select" THEN [kind |-> "None"]
  ELSE LET data == Select(rows, reel_id)
       IN  IF data = << >> THEN [kind |-> "None"]
           ELSE LET row == data[1]
                IN  [kind  |-> "dict",
                     value |-> [url            |-> Get(row, "url", None),
                                reel_id        |-> Get(row, "reel_id", None),
                                caption        |-> Get(row, "caption", None),
                                hashtags       |-> Get(row, "hashtags", << >>),
                                location       |-> Get(row, "location", None),
                                likes          |-> Get(row, "likes", 0),
                                timestamp      |-> Get(row, "timestamp", None),
                                owner_username |-> Get(row, "owner_username", None),
                                video_url      |-> Get(row, "video_url", None),
                                display_url    |-> Get(row, "display_url", None),
                                r2_video_key   |-> Get(row, "r2_video_key", None),
                                _from_cache    |-> TRUE,
                                _cached_at     |-> Get(row, "created_at", None)]]

HybridSaveFaults == { "none", "upload", "upsert" }

\* Step 2 of save_reel_data: the row to upsert.
SupabaseRow(reel_id, metadata, r2_video_key) ==
  [reel_id        |-> reel_id,
   url            |-> Get(metadata, "url", None),
   caption        |-> Get(metadata, "caption", None),
   hashtags       |-> Get(metadata, "hashtags", << >>),
   location       |-> Get(metadata, "location", None),
   likes          |-> Get(metadata, "likes", 0),
   timestamp      |-> Get(metadata, "timestamp", None),
   owner_username |-> Get(metadata, "owner_username", None),
   video_url      |-> Get(metadata, "video_url", None),
   display_url    |-> Get(metadata, "display_url", None),
   r2_video_key   |-> r2_video_key]

\* A save that upserts the row before it uploads the video.
Hybrid_save_reel_data_UpsertFirst(rows, bucket, tmp, reel_id, metadata, video_path, fault) ==
  LET upload == video_path # NoPath /\ PathExists(tmp, video_path)
      key    == IF upload THEN reel_id \o ".mp4" ELSE None
      rows1  == Upsert(rows, [reel_id |-> reel_id, r2_video_key |-> key])
  IN  IF fault = "upsert" THEN [rows |-> rows, bucket |-> bucket, ret |-> FALSE]
      ELSE IF upload /\ fault = "upload" THEN [rows |-> rows1, bucket |-> bucket, ret |-> FALSE]
      ELSE [rows   |-> rows1,
            bucket |-> IF upload THEN Put(bucket, key, tmp[video_path]) ELSE bucket,
            ret    |-> TRUE]

\* Step 1 uploads the video (if given and present), step 3 upserts the row;
\* ClientError and every other exception return False.
Hybrid_save_reel_data(rows, bucket, tmp, reel_id, metadata, video_path, fault) ==
  LET upload       == video_path # NoPath /\ PathExists(tmp, video_path)
      r2_video_key == IF upload THEN reel_id \o ".mp4" ELSE None
      bucket1      == IF upload THEN Put(bucket, r2_video_key, tmp[video_path]) ELSE bucket
      supabase_row == SupabaseRow(reel_id, metadata, r2_video_key)
  IN  IF upload /\ fault = "upload"
      THEN [rows |-> rows, bucket |-> bucket, ret |-> FALSE]
      ELSE IF fault = "upsert"
      THEN [rows |-> rows, bucket |-> bucket1, ret |-> FALSE]
      ELSE [rows |-> Upsert(rows, supabase_row), bucket |-> bucket1, ret |-> TRUE]

\* The public URL when R2_PUBLIC_URL is set, else a pre-signed URL; fault is
\* "none", "select" (get_metadata's select raises) or "presign"
\* (generate_presigned_url raises).  Every exception returns None.
HybridUrlFaults == { "none", "select", "presign" }

Hybrid_get_video_url(rows, reel_id, r2_public_url, fault) ==
  LET metadata == Hybrid_get_metadata(rows, reel_id, fault)
  IN  IF metadata.kind = "None" \/ ~Truthy(metadata.value["r2_video_key"]) THEN None
      ELSE IF Truthy(r2_public_url) THEN r2_public_url \o "/" \o metadata.value["r2_video_key"]
      ELSE IF fault = "presign" THEN None
      ELSE "presigned:" \o metadata.value["r2_video_key"]

HybridDeleteFaults == { "none", "select", "delete_row", "delete_object" }

\* A delete that removes the object before the row.
Hybrid_delete_reel_ObjectFirst(rows, bucket, reel_id, fault) ==
  LET metadata == Hybrid_get_metadata(rows, reel_id, fault)
      has_key  == metadata.kind = "dict" /\ Truthy(metadata.value["r2_video_key"])
      bucket1  == IF has_key THEN Drop(bucket, metadata.value["r2_video_key"]) ELSE bucket
      failed   == IF fault = "select" THEN "select" ELSE "none"
  IN  IF has_key /\ fault = "delete_object"
      THEN [rows |-> rows, bucket |-> bucket, ret |-> FALSE, failed |-> fault]
      ELSE IF fault = "delete_row"
      THEN [rows |-> rows, bucket |-> bucket1, ret |-> FALSE, failed |-> fault]
      ELSE [rows |-> Drop(rows, reel_id), bucket |-> bucket1, ret |-> TRUE, failed |-> failed]

\* A delete that reports failure for a key it finds no record of.
Hybrid_delete_reel_MissingFails(rows, bucket, reel_id, fault) ==
  [rows   |-> Drop(rows, reel_id),
   bucket |-> Drop(bucket, reel_id \o ".mp4"),
   ret    |-> reel_id \in DOMAIN rows,
   failed |-> "none"]

\* get_metadata (which returns None when its select fails), then the row is
\* deleted, then the object the metadata names.  failed is the remote call
\* that raised, "none" when every call completed.
Hybrid_delete_reel(rows, bucket, reel_id, fault) ==
  LET metadata == Hybrid_get_metadata(rows, reel_id, fault)
      has_key  == metadata.kind = "dict" /\ Truthy(metadata.value["r2_video_key"])
      failed   == IF fault = "select" THEN "select" ELSE "none"
  IN  IF fault = "delete_row"
      THEN [rows |-> rows, bucket |-> bucket, ret |-> FALSE, failed |-> fault]
      ELSE IF has_key /\ fault = "delete_object"
      THEN [rows |-> Drop(rows, reel_id), bucket |-> bucket, ret |-> FALSE, failed |-> fault]
      ELSE IF has_key
      THEN [rows   |-> Drop(rows, reel_id),
            bucket |-> Drop(bucket, metadata.value["r2_video_key"]),
            ret    |-> TRUE,
            failed |-> failed]
      ELSE [rows |-> Drop(rows, reel_id), bucket |-> bucket, ret |-> TRUE, failed |-> failed]

(***************************************************************************)
(* The module-level storage object of backend_api.py: "local",             *)
(* "supabase_r2", or "none" when get_storage_backend() raised and storage  *)
(* was set to None.  w is the world the calls act on:                      *)
(* [fs, rows, bucket, tmp], tmp being the temporary directory (a function   *)
(* from path to content).                                                  *)
(***************************************************************************)
StorageKinds == { "local", "supabase_r2", "none" }

\* An exists that never finds an entry.
Storage_exists_Never(w, storage, reel_id, fault) == [w |-> w, ret |-> FALSE]

Storage_exists(w, storage, reel_id, fault) ==
  CASE storage = "local" ->
         LET r == Local_exists(w.fs, reel_id)
         IN  [w |-> [w EXCEPT !.fs = r.fs], ret |-> r.ret]
    [] storage = "supabase_r2" ->
         [w |-> w, ret |-> Hybrid_exists(w.rows, reel_id, fault)]

Storage_get_metadata(w, storage, reel_id, fault) ==
  CASE storage = "local" ->
         LET r == Local_get_metadata(w.fs, reel_id)
         IN  [w |-> [w EXCEPT !.fs = r.fs], ret |-> r.ret]
    [] storage = "supabase_r2" ->
         [w |-> w, ret |-> Hybrid_get_metadata(w.rows, reel_id, fault)]

Storage_save_reel_data(w, storage, reel_id, metadata, video_path, fault) ==
  CASE storage = "local" ->
         LET r == Local_save_reel_data(w.fs, w.tmp, reel_id, metadata, video_path, fault)
         IN  [w |-> [w EXCEPT !.fs = r.fs], ret |-> r.ret]
    [] storage = "supabase_r2" ->
         LET r == Hybrid_save_reel_data(w.rows, w.bucket, w.tmp, reel_id, metadata,
                                        video_path, fault)
         IN  [w |-> [w EXCEPT !.rows = r.rows, !.bucket = r.bucket], ret |-> r.ret]

\* r2_public_url is the R2_PUBLIC_URL setting of the hybrid backend.
Storage_get_video_url(w, storage, reel_id, r2_public_url, fault) ==
  CASE storage = "local" ->
         LET r == Local_get_video_url(w.fs, reel_id)
         IN  [w |-> [w EXCEPT !.fs = r.fs], ret |-> r.ret]
    [] storage = "supabase_r2" ->
         [w |-> w, ret |-> Hybrid_get_video_url(w.rows, reel_id, r2_public_url, fault)]

(***************************************************************************)
(* Startup: backend_api.py builds the storage object once, from the        *)
(* environment.  env is [backend, libs, supabase, r2]: the value of        *)
(* STORAGE_BACKEND (None when unset), whether supabase and boto3 could be  *)
(* imported, and whether the Supabase settings and the R2 settings are     *)
(* all present.                                                            *)
(***************************************************************************)
Environments ==
  [backend : { None, "local", "supabase_r2", "gdrive" },
   libs : BOOLEAN, supabase : BOOLEAN, r2 : BOOLEAN]

\* SupabaseR2Storage.__init__: "ok", or the exception it raises.
Hybrid_init(env) ==
  IF ~env.libs THEN "ImportError"
  ELSE IF ~env.supabase THEN "ValueError"
  ELSE IF ~env.r2 THEN "ValueError"
  ELSE "ok"

\* get_storage_backend(): the backend built, or the exception raised.
get_storage_backend(env) ==
  LET storage_type == IF env.backend = None THEN "local" ELSE env.backend
  IN  IF storage_type = "supabase_r2"
      THEN [kind |-> IF Hybrid_init(env) = "ok" THEN "supabase_r2" ELSE "raise",
            exc  |-> Hybrid_init(env)]
      ELSE IF storage_type = "local"
      THEN [kind |-> "local", exc |-> "ok"]
      ELSE [kind |-> "raise", exc |-> "ValueError"]

\* Lines 43-48: an exception of get_storage_backend is caught, storage = None,
\* and the module goes on to define the application.
StorageAtStartup(env) ==
  IF get_storage_backend(env).kind = "raise" THEN "none" ELSE get_storage_backend(env).kind

(***************************************************************************)
(* The upstream collaborator (the Apify actor run and its dataset).  An    *)
(* outcome is [kind |-> "raise"] or [kind |-> "items", items |-> <<...>>]. *)
(* ItemVideo is a full item; ItemPlain has no video and leaves keys out,   *)
(* so the defaults of reel_data.get apply; ItemNullCaption carries         *)
(* "caption": null, which extracted['caption'][:100] cannot slice.         *)
(***************************************************************************)
ItemVideo ==
  [caption       |-> "Two days in Lisbon",
   hashtags      |-> << "lisbon", "travel" >>,
   locationName  |-> "Lisbon",
   likesCount    |-> 7,
   timestamp     |-> "2024-05-01T10:00:00.000Z",
   ownerUsername |-> "wanderer",
   videoUrl      |-> "https://cdn.test/v1.mp4",
   displayUrl    |-> "https://cdn.test/v1.jpg"]

ItemPlain ==
  [caption    |-> "Porto by night",
   hashtags   |-> << "porto" >>,
   likesCount |-> 3,
   timestamp  |-> None]

ItemNullCaption == [ItemVideo EXCEPT !.caption = None]

UpstreamOutcomes ==
  { [kind |-> "raise"],
    [kind |-> "items", items |-> << >>],
    [kind |-> "items", items |-> << ItemVideo >>],
    [kind |-> "items", items |-> << ItemPlain >>],
    [kind |-> "items", items |-> << ItemNullCaption >>] }

\* The outcomes under which the upstream collaborator succeeds.
UpstreamSucceeds(up) ==
  up.kind = "items" /\ up.items # << >> /\ Get(up.items[1], "caption", "") # None

\* The dict extract_reel_data builds from the first item.
Extracted(reel_url, reel_id, reel_data) ==
  [url            |-> reel_url,
   reel_id        |-> reel_id,
   caption        |-> Get(reel_data, "caption", ""),
   hashtags       |-> Get(reel_data, "hashtags", << >>),
   location       |-> Get(reel_data, "locationName", ""),
   likes          |-> Get(reel_data, "likesCount", 0),
   timestamp      |-> Get(reel_data, "timestamp", None),
   owner_username |-> Get(reel_data, "ownerUsername", ""),
   video_url      |-> Get(reel_data, "videoUrl", ""),
   display_url    |-> Get(reel_data, "displayUrl", ""),
   _from_cache    |-> FALSE]

(***************************************************************************)
(* extract_reel_data(reel_url).  ch says how each call it may make turns   *)
(* out: ch.exists and ch.get (the selects of the hybrid backend),          *)
(* ch.upstream, ch.mktemp ("ok" or "raise": NamedTemporaryFile),           *)
(* ch.download, ch.save.  The result is the world afterwards and what the  *)
(* caller sees: outcome "return" with the record, or "raise" with the      *)
(* exception and, for an HTTPException, its status; and what the call did. *)
(***************************************************************************)
\* What a call did: the calls it made and those of them that failed (raised,
\* or returned failure); the result of storage.exists (FALSE when not called);
\* how storage.get_metadata ended ("" when not called); the number of upstream
\* calls and of downloads; the saves as <<reel_id, video_path, returned value>>;
\* the temporary files it created and the one it staged a whole video in.
Quiet ==
  [calls |-> {}, failed |-> {}, exists_ret |-> FALSE, get_kind |-> "",
   upstream_calls |-> 0, downloads |-> 0, saves |-> << >>, created |-> {},
   staged |-> NoPath]

Done(w, outcome, exc, status, record, did) ==
  [w |-> w, outcome |-> outcome, exc |-> exc, status |-> status, record |-> record,
   did |-> did]

\* A clean-up that leaves the file where it is.
CleanUp_Keep(w, video_path) == w

\* Lines 431-436: os.unlink(video_path) if video_path is set and exists.
CleanUp(w, video_path) ==
  IF video_path # NoPath /\ PathExists(w.tmp, video_path)
  THEN [w EXCEPT !.tmp = Drop(@, video_path)]
  ELSE w

\* tempfile.NamedTemporaryFile(delete=False).name: a path that is not in use,
\* here the first one.
NewTemp(tmp) ==
  CHOOSE n \in 1..(Cardinality(DOMAIN tmp) + 1) :
    n \notin DOMAIN tmp /\ \A m \in 1..(n - 1) : m \in DOMAIN tmp

\* A staging that keeps video_path after download_video returned False.
Downloaded_KeepPath(w, tmp_name, dl, did) ==
  [w          |-> [w EXCEPT !.tmp = dl.tmp],
   video_path |-> tmp_name,
   did        |-> [did EXCEPT !.calls = @ \cup { "mktemp", "download" },
                              !.failed = IF dl.ret THEN @ ELSE @ \cup { "download" },
                              !.downloads = 1,
                              !.created = { tmp_name },
                              !.staged = IF dl.ret THEN tmp_name ELSE NoPath]]

\* Lines 414-418, dl being what download_video did with the new file tmp_name.
Downloaded(w, tmp_name, dl, did) ==
  [w          |-> [w EXCEPT !.tmp = dl.tmp],
   video_path |-> IF dl.ret THEN tmp_name ELSE NoPath,
   did        |-> [did EXCEPT !.calls = @ \cup { "mktemp", "download" },
                              !.failed = IF dl.ret THEN @ ELSE @ \cup { "download" },
                              !.downloads = 1,
                              !.created = { tmp_name },
                              !.staged = IF dl.ret THEN tmp_name ELSE NoPath]]

\* Lines 406-421: video_path = None, then the staging of the video if the
\* record has a video URL and there is a storage object.
StageVideo(w, storage, extracted, ch, did) ==
  IF ~(Truthy(extracted["video_url"]) /\ storage # "none")
  THEN [w |-> w, video_path |-> NoPath, did |-> did]
  ELSE IF ch.mktemp = "raise"
  THEN [w |-> w, video_path |-> NoPath,
        did |-> [did EXCEPT !.calls = @ \cup { "mktemp" }, !.failed = @ \cup { "mktemp" }]]
  ELSE Downloaded(w, NewTemp(w.tmp),
                  download_video(Put(w.tmp, NewTemp(w.tmp), EmptyFile), extracted["video_url"],
                                 NewTemp(w.tmp), ch.download),
                  did)

\* A pipeline in which a save that returned False fails the fetch.
Saved_Raise(sv, reel_id, extracted, video_path, did) ==
  IF sv.ret
  THEN Done(CleanUp(sv.w, video_path), "return", "", 0, extracted,
            [did EXCEPT !.calls = @ \cup { "save" },
                        !.saves = << << reel_id, video_path, sv.ret >> >>])
  ELSE Done(CleanUp(sv.w, video_path), "raise", "HTTPException", 500, EmptyDict,
            [did EXCEPT !.calls = @ \cup { "save" }, !.failed = @ \cup { "save" },
                        !.saves = << << reel_id, video_path, sv.ret >> >>])

\* Lines 431-438, sv being what storage.save_reel_data did.
Saved(sv, reel_id, extracted, video_path, did) ==
  Done(CleanUp(sv.w, video_path), "return", "", 0, extracted,
       [did EXCEPT !.calls = @ \cup { "save" },
                   !.failed = IF sv.ret THEN @ ELSE @ \cup { "save" },
                   !.saves = << << reel_id, video_path, sv.ret >> >>])

\* Lines 423-438, sg being what the staging did.
SaveToCache(sg, storage, reel_id, extracted, ch) ==
  IF storage = "none"
  THEN Done(CleanUp(sg.w, sg.video_path), "return", "", 0, extracted, sg.did)
  ELSE Saved(Storage_save_reel_data(sg.w, storage, reel_id, extracted, sg.video_path, ch.save),
             reel_id, extracted, sg.video_path, sg.did)

\* Lines 366-442: the cache missed (or its metadata was None).
FetchFresh(w, storage, reel_url, reel_id, ch, did) ==
  IF ~UpstreamSucceeds(ch.upstream)
  THEN Done(w, "raise", "HTTPException", 500, EmptyDict,
            [did EXCEPT !.calls = @ \cup { "upstream" }, !.failed = @ \cup { "upstream" },
                        !.upstream_calls = 1])
  ELSE SaveToCache(StageVideo(w, storage, Extracted(reel_url, reel_id, ch.upstream.items[1]), ch,
                              [did EXCEPT !.calls = @ \cup { "upstream" }, !.upstream_calls = 1]),
                   storage, reel_id, Extracted(reel_url, reel_id, ch.upstream.items[1]), ch)

\* A hit that returns the stored record as it is, its url included.
CacheHit_KeepUrl(gm, storage, reel_url, reel_id, ch, did) ==
  IF gm.ret.kind = "dict"
  THEN Done(gm.w, "return", "", 0, Put(gm.ret.value, "_from_cache", TRUE),
            [did EXCEPT !.get_kind = "dict"])
  ELSE Done(gm.w, "raise", "HTTPException", 500, EmptyDict,
            [did EXCEPT !.get_kind = gm.ret.kind])

\* Lines 354-362, gm being what storage.get_metadata did.
CacheHit(gm, storage, reel_url, reel_id, ch, did) ==
  IF gm.ret.kind = "raise"
  THEN Done(gm.w, "raise", gm.ret.exc, 0, EmptyDict,
            [did EXCEPT !.failed = @ \cup { "get" }, !.get_kind = "raise"])
  ELSE IF gm.ret.kind = "dict" /\ DOMAIN gm.ret.value # {}
  THEN Done(gm.w, "return", "", 0,
            Put(Put(gm.ret.value, "_from_cache", TRUE), "url", reel_url),
            [did EXCEPT !.get_kind = "dict"])
  ELSE FetchFresh(gm.w, storage, reel_url, reel_id, ch,
                  [did EXCEPT !.failed = IF ch.get # "none" THEN @ \cup { "get" } ELSE @,
                              !.get_kind = gm.ret.kind])

\* Lines 352-364, ex being what storage.exists did.
CacheCheck(ex, storage, reel_url, reel_id, ch) ==
  IF ex.ret
  THEN CacheHit(Storage_get_metadata(ex.w, storage, reel_id, ch.get), storage, reel_url, reel_id,
                ch, [Quiet EXCEPT !.calls = { "exists", "get" }, !.exists_ret = TRUE])
  ELSE FetchFresh(ex.w, storage, reel_url, reel_id, ch,
                  [Quiet EXCEPT !.calls = { "exists" },
                                !.failed = IF ch.exists # "none" THEN { "exists" } ELSE {}])

extract_reel_data(w, storage, apify, reel_url, ch) ==
  IF ~apify
  THEN Done(w, "raise", "HTTPException", 503, EmptyDict, Quiet)
  ELSE IF storage = "none"
  THEN FetchFresh(w, storage, reel_url, KeyOf[reel_url], ch, Quiet)
  ELSE CacheCheck(Storage_exists(w, storage, KeyOf[reel_url], ch.exists), storage, reel_url,
                  KeyOf[reel_url], ch)

(***************************************************************************)
(* clear_cache(reel_url), the handler of POST /cache/clear.  It calls      *)
(* storage.delete_reel_data(reel_url).  StorageMethods is the methods each *)
(* backend class has, its own and those of StorageBackend: a call of any   *)
(* other name raises AttributeError, which the handler's except clause     *)
(* turns into HTTP 500.                                                    *)
(***************************************************************************)
StorageMethods(storage) ==
  CASE storage = "local" ->
         { "exists", "get_metadata", "save_reel_data", "get_video_url", "_get_reel_dir" }
    [] storage = "supabase_r2" ->
         { "exists", "get_metadata", "save_reel_data", "get_video_url", "delete_reel",
           "list_cached_reels" }

\* storage.delete_reel_data(reel_url): the attribute lookup.
Storage_delete_reel_data(w, storage, reel_url) ==
  IF "delete_reel_data" \notin StorageMethods(storage)
  THEN [w |-> w, kind |-> "raise", exc |-> "AttributeError", ret |-> FALSE]
  ELSE [w |-> w, kind |-> "return", exc |-> None, ret |-> FALSE]

ClearResult(w, outcome, status, success, message) ==
  [w |-> w, outcome |-> outcome, status |-> status, success |-> success, message |-> message]

\* Lines 824-837, deleted being what the call of delete_reel_data did.
ClearDeleted(deleted, reel_url) ==
  IF deleted.kind = "raise"
  THEN ClearResult(deleted.w, "raise", 500, FALSE, deleted.exc)
  ELSE IF deleted.ret
  THEN ClearResult(deleted.w, "return", 200, TRUE, "Cache cleared for: " \o reel_url)
  ELSE ClearResult(deleted.w, "return", 200, FALSE, "Reel not found in cache")

clear_cache(w, storage, reel_url) ==
  IF storage = "none"
  THEN ClearResult(w, "raise", 503, FALSE, "Storage provider not configured")
  ELSE IF ~Truthy(reel_url)
  THEN ClearResult(w, "return", 200, FALSE,
                   "Specify reel_url to clear. Bulk clear not implemented.")
  ELSE ClearDeleted(Storage_delete_reel_data(w, storage, reel_url), reel_url)

(***************************************************************************)
(* The state.                                                              *)
(***************************************************************************)
VARIABLES
  storage,   \* the storage object: "local", "supabase_r2" or "none"
  apify,     \* whether APIFY_API_TOKEN was set, so apify_client is not None
  fs,        \* the local cache root
  rows,      \* the table reel_cache
  bucket,    \* the R2 bucket
  tmp,       \* the temporary directory
  last,      \* the last call: what it was given, what it returned, what it did
  fetched,   \* history: the keys a fetch has returned a record for since their last delete
  first,     \* history: the last fetch was the first one for its key since its last delete
  callers    \* the calls in progress step by step: each caller's position and locals

vars == << storage, apify, fs, rows, bucket, tmp, last, fetched, first, callers >>

\* The history is kept by the specification that reads it (SpecWorking).
history == << fetched, first >>

World == [fs |-> fs, rows |-> rows, bucket |-> bucket, tmp |-> tmp]

SetWorld(w) ==
  /\ fs' = w.fs
  /\ rows' = w.rows
  /\ bucket' = w.bucket
  /\ tmp' = w.tmp

\* Bounds: the files left in the temporary directory, and the calls that fail
\* within one fetch.
MaxTemp == 1
MaxFaults == 1

\* No call in progress.
NoCalls == << >>

Init ==
  /\ storage \in { StorageAtStartup(env) : env \in Environments }
  /\ apify \in BOOLEAN
  /\ fs = EmptyFs
  /\ rows = EmptyRows
  /\ bucket = EmptyBucket
  /\ tmp = [x \in {} |-> EmptyFile]
  /\ last = [op |-> "none"]
  /\ fetched = {}
  /\ first = FALSE
  /\ callers = NoCalls

SaveFaults(kind) ==
  CASE kind = "local" -> LocalSaveFaults
    [] kind = "supabase_r2" -> HybridSaveFaults
    [] kind = "none" -> { "none" }

SelectFaults(kind) == IF kind = "supabase_r2" THEN { "none", "select" } ELSE { "none" }

NFaults(ch) ==
  (IF ch.exists # "none" THEN 1 ELSE 0) + (IF ch.get # "none" THEN 1 ELSE 0)
    + (IF ch.mktemp # "ok" THEN 1 ELSE 0) + (IF ch.download # "ok" THEN 1 ELSE 0)
    + (IF ch.save # "none" THEN 1 ELSE 0)

\* The calls a fetch makes once the cache has missed, given how they turn out.
CallsOnMiss(kind, ch) ==
  { "upstream" }
    \cup (IF UpstreamSucceeds(ch.upstream) /\ kind # "none"
          THEN { "save" }
               \cup (IF Truthy(Get(ch.upstream.items[1], "videoUrl", ""))
                     THEN { "mktemp" } \cup (IF ch.mktemp = "ok" THEN { "download" } ELSE {})
                     ELSE {})
          ELSE {})

\* The choice for a call that is not made says nothing: it is the first one.
Used(ch, calls) ==
  /\ "exists" \notin calls => ch.exists = "none"
  /\ "get" \notin calls => ch.get = "none"
  /\ "upstream" \notin calls => ch.upstream = [kind |-> "items", items |-> << ItemVideo >>]
  /\ "mktemp" \notin calls => ch.mktemp = "ok"
  /\ "download" \notin calls => ch.download = "ok"
  /\ "save" \notin calls => ch.save = "none"

\* How the calls of one fetch may turn out, with at most MaxFaults failing.
Choices(kind) ==
  { ch \in [exists : SelectFaults(kind), get : SelectFaults(kind),
            upstream : UpstreamOutcomes, mktemp : { "ok", "raise" },
            download : DownloadOutcomes, save : SaveFaults(kind)] :
      /\ NFaults(ch) <= MaxFaults
      /\ Used(ch, { "exists", "get" } \cup CallsOnMiss(kind, ch)) }

LocalChoices  == Choices("local")
HybridChoices == Choices("supabase_r2")
NoneChoices   == Choices("none")

FetchChoices(kind) ==
  CASE kind = "local" -> LocalChoices
    [] kind = "supabase_r2" -> HybridChoices
    [] kind = "none" -> NoneChoices

\* One call of extract_reel_data from start to end.
Fetch(reel_url, ch) ==
  \E r \in { extract_reel_data(World, storage, apify, reel_url, ch) } :
    /\ Used(ch, r.did.calls)
    /\ Cardinality(DOMAIN r.w.tmp) <= MaxTemp
    /\ SetWorld(r.w)
    /\ last' = [op |-> "fetch", url |-> reel_url, reel_id |-> KeyOf[reel_url],
                outcome |-> r.outcome, exc |-> r.exc, status |-> r.status,
                record |-> r.record, did |-> r.did]
    /\ UNCHANGED << storage, apify, callers >>

\* delete_reel of the hybrid backend, called for one key.  before is what
\* get_metadata would have returned just before the call.
DeleteReel(reel_id, fault) ==
  \E r \in { Hybrid_delete_reel(rows, bucket, reel_id, fault) } :
    /\ storage = "supabase_r2"
    /\ rows' = r.rows
    /\ bucket' = r.bucket
    /\ last' = [op |-> "delete", reel_id |-> reel_id, ret |-> r.ret, failed |-> r.failed,
                before |-> Hybrid_get_metadata(rows, reel_id, "none")]
    /\ UNCHANGED << storage, apify, fs, tmp, callers >>

\* The reel_url parameter of clear_cache: a URL, or None when it is left out.
ClearUrls == Urls \cup { None }

\* One call of clear_cache.  had says whether the key of the URL had an entry
\* just before the call.
ClearCache(reel_url) ==
  \E r \in { clear_cache(World, storage, reel_url) } :
    /\ SetWorld(r.w)
    /\ last' = [op |-> "clear_cache", url |-> reel_url, outcome |-> r.outcome,
                status |-> r.status, success |-> r.success, message |-> r.message,
                had |-> /\ storage # "none"
                        /\ reel_url \in Urls
                        /\ Storage_exists(World, storage, KeyOf[reel_url], "none").ret]
    /\ UNCHANGED << storage, apify, history, callers >>

\* The service: fetches, deletes and cache clears one after the other, any
\* call failing.
Next ==
  \/ \E u \in Urls : \E ch \in FetchChoices(storage) : Fetch(u, ch) /\ UNCHANGED history
  \/ \E k \in Keys : \E f \in HybridDeleteFaults : DeleteReel(k, f) /\ UNCHANGED history
  \/ \E u \in ClearUrls : ClearCache(u)

Spec == Init /\ [][Next]_vars

(***************************************************************************)
(* The service with a working storage backend and a succeeding upstream:   *)
(* no storage call fails and the upstream collaborator returns an item the *)
(* pipeline accepts (a download may still fail).  This specification keeps *)
(* the history of which keys have been fetched.                            *)
(***************************************************************************)
InitWorking == Init /\ storage # "none" /\ apify

WorkingChoices(kind) ==
  { ch \in FetchChoices(kind) :
      /\ ch.exists = "none" /\ ch.get = "none" /\ ch.save = "none"
      /\ UpstreamSucceeds(ch.upstream) }

FetchWorking(reel_url, ch) ==
  /\ Fetch(reel_url, ch)
  /\ first' = (KeyOf[reel_url] \notin fetched)
  /\ fetched' = fetched \cup { KeyOf[reel_url] }

DeleteWorking(reel_id) ==
  /\ DeleteReel(reel_id, "none")
  /\ first' = FALSE
  /\ fetched' = fetched \ { reel_id }

NextWorking ==
  \/ \E u \in Urls : \E ch \in WorkingChoices(storage) : FetchWorking(u, ch)
  \/ \E k \in Keys : DeleteWorking(k)

SpecWorking == InitWorking /\ [][NextWorking]_vars
(***************************************************************************)
(* The storage backend called directly, one call after the other: the      *)
(* StorageBackend interface of the configured backend, any remote call     *)
(* failing.  The caller holds two video files (StagedVideo, OtherVideo) in  *)
(* the temporary directory; MissingVideo is a path at which there is no    *)
(* file.                                                                   *)
(* A record is one extract_reel_data builds, saved under its own key.      *)
(***************************************************************************)
StagedVideo == 1
MissingVideo == 2
OtherVideo == 3

VideoPaths == { NoPath, StagedVideo, MissingVideo, OtherVideo }

\* The temporary directory of the caller.
StagedFiles ==
  [x \in { StagedVideo, OtherVideo } |->
     IF x = StagedVideo THEN Whole(ItemVideo.videoUrl) ELSE Whole("https://cdn.test/v2.mp4")]

\* The URLs the saved records were fetched for: one for each key.
StoreUrls == { ReelUrl, ShareUrl }

StoreRecords(reel_id) ==
  { Extracted(u, reel_id, item) :
      u \in { x \in StoreUrls : KeyOf[x] = reel_id }, item \in { ItemVideo, ItemPlain } }

PublicUrls == { None, "https://pub.test" }

InitStore ==
  /\ storage \in { "local", "supabase_r2" }
  /\ apify = TRUE
  /\ fs = EmptyFs
  /\ rows = EmptyRows
  /\ bucket = EmptyBucket
  /\ tmp = StagedFiles
  /\ last = [op |-> "none"]
  /\ fetched = {}
  /\ first = FALSE
  /\ callers = NoCalls

\* save_reel_data(reel_id, metadata, video_path).  before is what get_metadata
\* would have returned just before the call, failed the step that raised.
Save(reel_id, metadata, video_path, fault) ==
  \E r \in { Storage_save_reel_data(World, storage, reel_id, metadata, video_path, fault) } :
    /\ SetWorld(r.w)
    /\ last' = [op |-> "save", reel_id |-> reel_id, metadata |-> metadata,
                video_path |-> video_path, ret |-> r.ret,
                failed |-> IF r.ret THEN "none" ELSE fault,
                before |-> Storage_get_metadata(World, storage, reel_id, "none").ret]
    /\ UNCHANGED << storage, apify, history, callers >>

Exists(reel_id, fault) ==
  \E r \in { Storage_exists(World, storage, reel_id, fault) } :
    /\ SetWorld(r.w)
    /\ last' = [op |-> "exists", reel_id |-> reel_id, ret |-> r.ret]
    /\ UNCHANGED << storage, apify, history, callers >>

GetMetadata(reel_id, fault) ==
  \E r \in { Storage_get_metadata(World, storage, reel_id, fault) } :
    /\ SetWorld(r.w)
    /\ last' = [op |-> "get_metadata", reel_id |-> reel_id, ret |-> r.ret]
    /\ UNCHANGED << storage, apify, history, callers >>

GetVideoUrl(reel_id, r2_public_url, fault) ==
  \E r \in { Storage_get_video_url(World, storage, reel_id, r2_public_url, fault) } :
    /\ SetWorld(r.w)
    /\ last' = [op |-> "get_video_url", reel_id |-> reel_id, ret |-> r.ret]
    /\ UNCHANGED << storage, apify, history, callers >>

UrlFaults(kind) == IF kind = "supabase_r2" THEN HybridUrlFaults ELSE { "none" }

NextStore ==
  \/ \E k \in Keys : \E m \in StoreRecords(k) : \E v \in VideoPaths :
       \E f \in SaveFaults(storage) : Save(k, m, v, f)
  \/ \E k \in Keys : \E f \in SelectFaults(storage) : Exists(k, f)
  \/ \E k \in Keys : \E f \in SelectFaults(storage) : GetMetadata(k, f)
  \/ \E k \in Keys : \E u \in PublicUrls : \E f \in UrlFaults(storage) : GetVideoUrl(k, u, f)
  \/ \E k \in Keys : \E f \in HybridDeleteFaults : DeleteReel(k, f) /\ UNCHANGED history

SpecStore == InitStore /\ [][NextStore]_vars

\* The hybrid backend called when none of its remote calls fails: saves and
\* deletes only, one after the other.
InitHybrid == InitStore /\ storage = "supabase_r2"

NextHybrid ==
  \/ \E k \in Keys : \E m \in StoreRecords(k) : \E v \in VideoPaths : Save(k, m, v, "none")
  \/ \E k \in Keys : DeleteReel(k, "none") /\ UNCHANGED history

SpecHybrid == InitHybrid /\ [][NextHybrid]_vars
(***************************************************************************)
(* The key derivation called on its own, for URLs spelled out character by *)
(* character.  A marked URL is scheme, host, a /reel/ or /p/ marker, an    *)
(* identifier, and a tail (nothing, a trailing path or a query string; one *)
(* tail holds a second marker); a plain URL is scheme, host and a path     *)
(* with no marker followed by an identifier.  last keeps the call before   *)
(* as well, so two calls can be compared.                                  *)
(***************************************************************************)
KeySchemes ==
  { << "h", "t", "t", "p", "s", ":", "/", "/" >>, << "h", "t", "t", "p", ":", "/", "/" >> }

KeyHosts == { << "x", ".", "t", "e", "s", "t" >>, << "i", "g", ".", "m", "e" >> }

KeyMarkers == { << "/", "r", "e", "e", "l", "/" >>, << "/", "p", "/" >> }

KeyIds == { << "A", "B", "C", "1", "2", "3" >>, << "a", "_", "b", "-", "9" >> }

KeyTails ==
  { << >>,
    << "/" >>,
    << "?", "i", "g", "s", "h", "=", "1" >>,
    << "/", "?", "n", "=", "/", "p", "/", "z" >> }

PlainPaths ==
  { << >>,
    << "/", "s", "h", "a", "r", "e", "?", "i", "d", "=", "9", "9", "9" >>,
    << "/", "r", "e", "e", "l", "s", "/", "A", "B", "C", "1", "2", "3" >>,
    << "/", "P", "/", "A", "B", "C", "1", "2", "3" >>,
    << "/", "r", "e", "e", "l", "/" >> }

MarkedUrls ==
  { s \o h \o m \o i \o t :
      s \in KeySchemes, h \in KeyHosts, m \in KeyMarkers, i \in KeyIds, t \in KeyTails }

PlainUrls == { s \o h \o p : s \in KeySchemes, h \in KeyHosts, p \in PlainPaths }

\* What may follow the identifier within its path segment: characters that
\* are neither identifier characters nor the end of the segment.
KeyRests == { << ".", "C" >>, << "#", "x" >> }

\* What may follow such a segment: nothing or a slash.
OddTails == { << >>, << "/" >> }

\* URLs whose segment after the marker is an identifier and more.
OddUrls ==
  { s \o h \o m \o i \o r \o t :
      s \in KeySchemes, h \in KeyHosts, m \in KeyMarkers, i \in KeyIds, r \in KeyRests,
      t \in OddTails }

\* extract_reel_id_from_url of each of these URLs.
DerivedKey ==
  [u \in MarkedUrls \cup PlainUrls \cup OddUrls |-> extract_reel_id_from_url(u)] @@ << >>

InitKey == Init /\ storage = "none" /\ ~apify

\* The call before: nothing, or the URL, identifier, segment and key of the
\* last call.
Before ==
  IF last.op = "derive"
  THEN [url |-> last.url, id |-> last.id, segment |-> last.segment, key |-> last.key]
  ELSE [url |-> << >>, id |-> << >>, segment |-> << >>, key |-> << >>]

\* One call of extract_reel_id_from_url.  id is the identifier the URL was
\* spelled with and segment the whole path segment after the marker, both
\* empty for a plain URL.
Derive(reel_url, id, segment) ==
  /\ last' = [op |-> "derive", url |-> reel_url, id |-> id, segment |-> segment,
              key |-> DerivedKey[reel_url], prev |-> Before]
  /\ UNCHANGED << storage, apify, fs, rows, bucket, tmp, history, callers >>

NextKey ==
  \/ \E s \in KeySchemes : \E h \in KeyHosts : \E m \in KeyMarkers : \E i \in KeyIds :
       \E t \in KeyTails : Derive(s \o h \o m \o i \o t, i, i)
  \/ \E u \in PlainUrls : Derive(u, << >>, << >>)
  \/ \E s \in KeySchemes : \E h \in KeyHosts : \E m \in KeyMarkers : \E i \in KeyIds :
       \E r \in KeyRests : \E t \in OddTails : Derive(s \o h \o m \o i \o r \o t, i, i \o r)

SpecKey == InitKey /\ [][NextKey]_vars

(***************************************************************************)
(* The service stopped and started again.  What the backends hold and the  *)
(* temporary directory outlive the process; apify_client is built anew    *)
(* from APIFY_API_TOKEN of the new process (line 40), token saying whether *)
(* it is set.  The storage settings are those of the process before, so    *)
(* get_storage_backend gives the same backend again.                       *)
(***************************************************************************)
Restart(token) ==
  /\ apify' = token
  /\ UNCHANGED << storage, fs, rows, bucket, tmp, last, history, callers >>

NextRestart ==
  \/ \E u \in Urls : \E ch \in FetchChoices(storage) : Fetch(u, ch) /\ UNCHANGED history
  \/ \E k \in Keys : \E f \in HybridDeleteFaults : DeleteReel(k, f) /\ UNCHANGED history
  \/ \E token \in BOOLEAN : Restart(token)

SpecRestart == Init /\ [][NextRestart]_vars

(***************************************************************************)
(* The service run by several workers that share the storage backend and   *)
(* the temporary directory: calls of extract_reel_data and of the hybrid   *)
(* backend's delete_reel proceed step by step, each step one access to the *)
(* file system, the table, the bucket or the upstream collaborator, and    *)
(* the steps of calls in progress interleave.  No access fails here except *)
(* the download; a call may be aborted (cancelled, its deadline elapsed)   *)
(* once it has created its temporary file.  callers is the sequence of the *)
(* calls started so far, each with its position pc and its locals.         *)
(***************************************************************************)
MaxCalls == 3
MaxRunning == 2

\* What the upstream collaborator returns for the reel at different times.
ItemLater ==
  [ItemVideo EXCEPT !.caption = "Three days in Lisbon", !.likesCount = 9,
                    !.videoUrl = "https://cdn.test/v2.mp4"]

StepItems == { ItemVideo, ItemLater }

StepUrls == { ReelUrl }

Running == { p \in DOMAIN callers : callers[p].pc # "done" }

CanStart == Len(callers) < MaxCalls /\ Cardinality(Running) < MaxRunning

InitSteps == Init /\ storage # "none" /\ apify

\* Caller p moves on: its record changes as given.
Goes(p, call) == callers' = [callers EXCEPT ![p] = call]

At(p, op, pc) == p \in DOMAIN callers /\ callers[p].op = op /\ callers[p].pc = pc

\* extract_reel_data(reel_url) is called; item is what the upstream
\* collaborator will return to this call.
StartFetch(reel_url, item) ==
  /\ CanStart
  /\ callers' = Append(callers,
       [op |-> "fetch", pc |-> "exists", with |-> Running, url |-> reel_url,
        reel_id |-> KeyOf[reel_url], item |-> item, exists_ret |-> FALSE, get_kind |-> "",
        upstream_calls |-> 0, created |-> NoPath, video_path |-> NoPath,
        outcome |-> "", record |-> EmptyDict])
  /\ UNCHANGED << storage, apify, fs, rows, bucket, tmp, last, history >>

\* Line 352: storage.exists(reel_id).
StepExists(p) ==
  /\ At(p, "fetch", "exists")
  /\ \E r \in { Storage_exists(World, storage, callers[p].reel_id, "none") } :
       /\ SetWorld(r.w)
       /\ Goes(p, [callers[p] EXCEPT !.exists_ret = r.ret,
                                     !.pc = IF r.ret THEN "get" ELSE "upstream"])
  /\ UNCHANGED << storage, apify, last, history >>

\* Lines 354-362: storage.get_metadata(reel_id) and the return of a hit.
StepGet(p) ==
  /\ At(p, "fetch", "get")
  /\ \E r \in { Storage_get_metadata(World, storage, callers[p].reel_id, "none") } :
       /\ SetWorld(r.w)
       /\ Goes(p, IF r.ret.kind = "raise"
                  THEN [callers[p] EXCEPT !.get_kind = "raise", !.pc = "done",
                                          !.outcome = r.ret.exc]
                  ELSE IF r.ret.kind = "dict" /\ DOMAIN r.ret.value # {}
                  THEN [callers[p] EXCEPT !.get_kind = "dict", !.pc = "done",
                                          !.outcome = "return",
                                          !.record = Put(Put(r.ret.value, "_from_cache", TRUE),
                                                         "url", callers[p].url)]
                  ELSE [callers[p] EXCEPT !.get_kind = r.ret.kind, !.pc = "upstream"])
  /\ UNCHANGED << storage, apify, last, history >>

\* The record the call builds from its item (lines 387-399).
StepExtracted(p) == Extracted(callers[p].url, callers[p].reel_id, callers[p].item)

\* Where the save of the configured backend begins.
SaveStart(video_path) ==
  IF storage = "local" THEN "mkdir"
  ELSE IF video_path # NoPath /\ PathExists(tmp', video_path) THEN "upload"
  ELSE "upsert"

\* Lines 378-404: the actor run and the dataset read.
StepUpstream(p) ==
  /\ At(p, "fetch", "upstream")
  /\ Goes(p, [callers[p] EXCEPT !.upstream_calls = 1,
                                !.pc = IF Truthy(StepExtracted(p)["video_url"])
                                       THEN "mktemp" ELSE SaveStart(NoPath)])
  /\ UNCHANGED << storage, apify, fs, rows, bucket, tmp, last, history >>

\* Lines 411-412: NamedTemporaryFile(delete=False) creates an empty file.
StepMktemp(p) ==
  /\ At(p, "fetch", "mktemp")
  /\ tmp' = Put(tmp, NewTemp(tmp), EmptyFile)
  /\ Goes(p, [callers[p] EXCEPT !.created = NewTemp(tmp), !.video_path = NewTemp(tmp),
                                !.pc = "download"])
  /\ UNCHANGED << storage, apify, fs, rows, bucket, last, history >>

\* Lines 414-418: download_video, and video_path = None when it returns False.
StepDownload(p, outcome) ==
  /\ At(p, "fetch", "download")
  /\ \E r \in { download_video(tmp, StepExtracted(p)["video_url"], callers[p].video_path,
                                 outcome) } :
       /\ tmp' = r.tmp
       /\ Goes(p, [callers[p] EXCEPT
                     !.video_path = IF r.ret THEN @ ELSE NoPath,
                     !.pc = SaveStart(IF r.ret THEN callers[p].video_path ELSE NoPath)])
  /\ UNCHANGED << storage, apify, fs, rows, bucket, last, history >>

\* SupabaseR2Storage.save_reel_data, step 1: upload_fileobj.
StepUpload(p) ==
  /\ At(p, "fetch", "upload")
  /\ bucket' = Put(bucket, callers[p].reel_id \o ".mp4", tmp[callers[p].video_path])
  /\ Goes(p, [callers[p] EXCEPT !.pc = "upsert"])
  /\ UNCHANGED << storage, apify, fs, rows, tmp, last, history >>

\* SupabaseR2Storage.save_reel_data, step 3: the upsert.
StepUpsert(p) ==
  /\ At(p, "fetch", "upsert")
  /\ rows' = Upsert(rows, SupabaseRow(callers[p].reel_id, StepExtracted(p),
                                      IF /\ callers[p].video_path # NoPath
                                         /\ PathExists(tmp, callers[p].video_path)
                                      THEN callers[p].reel_id \o ".mp4" ELSE None))
  /\ Goes(p, [callers[p] EXCEPT !.pc = "cleanup"])
  /\ UNCHANGED << storage, apify, fs, bucket, tmp, last, history >>

\* LocalFileStorage.save_reel_data: _get_reel_dir.
StepMkdir(p) ==
  /\ At(p, "fetch", "mkdir")
  /\ fs' = Local_get_reel_dir(fs, callers[p].reel_id)
  /\ Goes(p, [callers[p] EXCEPT !.pc = "open"])
  /\ UNCHANGED << storage, apify, rows, bucket, tmp, last, history >>

\* LocalFileStorage.save_reel_data: open(metadata.json, 'w') empties the file.
StepOpen(p) ==
  /\ At(p, "fetch", "open")
  /\ fs' = [fs EXCEPT !.files = Put(@, MetadataFile(callers[p].reel_id), << >>)]
  /\ Goes(p, [callers[p] EXCEPT !.pc = "dump"])
  /\ UNCHANGED << storage, apify, rows, bucket, tmp, last, history >>

\* LocalFileStorage.save_reel_data: json.dump and the close of the file, which
\* writes the buffered document in one piece.
StepDump(p) ==
  /\ At(p, "fetch", "dump")
  /\ fs' = [fs EXCEPT !.files =
             Put(@, MetadataFile(callers[p].reel_id),
                 WriteFromStart(@[MetadataFile(callers[p].reel_id)],
                                json_dump(StepExtracted(p))))]
  /\ Goes(p, [callers[p] EXCEPT !.pc = IF /\ callers[p].video_path # NoPath
                                          /\ PathExists(tmp, callers[p].video_path)
                                       THEN "copy" ELSE "cleanup"])
  /\ UNCHANGED << storage, apify, rows, bucket, tmp, last, history >>

\* LocalFileStorage.save_reel_data: shutil.copy opens video.mp4 with 'wb',
\* which empties it.
StepCopy(p) ==
  /\ At(p, "fetch", "copy")
  /\ fs' = [fs EXCEPT !.files = Put(@, VideoFile(callers[p].reel_id), EmptyFile)]
  /\ Goes(p, [callers[p] EXCEPT !.pc = "write"])
  /\ UNCHANGED << storage, apify, rows, bucket, tmp, last, history >>

\* shutil.copy writes the content of the temporary file and closes.
StepWrite(p) ==
  /\ At(p, "fetch", "write")
  /\ fs' = [fs EXCEPT !.files =
             Put(@, VideoFile(callers[p].reel_id),
                 CopyOver(@[VideoFile(callers[p].reel_id)], tmp[callers[p].video_path]))]
  /\ Goes(p, [callers[p] EXCEPT !.pc = "cleanup"])
  /\ UNCHANGED << storage, apify, rows, bucket, tmp, last, history >>

\* Lines 432-438: the temporary file is unlinked and the record returned.
StepCleanup(p) ==
  /\ At(p, "fetch", "cleanup")
  /\ tmp' = CleanUp(World, callers[p].video_path).tmp
  /\ Goes(p, [callers[p] EXCEPT !.pc = "done", !.outcome = "return",
                                !.record = StepExtracted(p)])
  /\ UNCHANGED << storage, apify, fs, rows, bucket, last, history >>

\* The call is aborted after it created its temporary file: an exception
\* that is no Exception (a cancellation, an interrupt) passes every except
\* clause of extract_reel_data, and no finally clause runs.
Abort(p) ==
  /\ p \in DOMAIN callers
  /\ callers[p].op = "fetch"
  /\ callers[p].pc \in { "download", "upload", "upsert", "mkdir", "open", "dump", "copy",
                         "write", "cleanup" }
  /\ callers[p].created # NoPath
  /\ Goes(p, [callers[p] EXCEPT !.pc = "done", !.outcome = "abort"])
  /\ UNCHANGED << storage, apify, fs, rows, bucket, tmp, last, history >>

\* The call is aborted inside json.dump: the with block closes the file, which
\* writes the DumpCut tokens handed to it so far.
AbortInDump(p) ==
  /\ At(p, "fetch", "dump")
  /\ callers[p].created # NoPath
  /\ fs' = [fs EXCEPT !.files =
             Put(@, MetadataFile(callers[p].reel_id),
                 WriteFromStart(@[MetadataFile(callers[p].reel_id)],
                                SubSeq(json_dump(StepExtracted(p)), 1, DumpCut)))]
  /\ Goes(p, [callers[p] EXCEPT !.pc = "done", !.outcome = "abort"])
  /\ UNCHANGED << storage, apify, rows, bucket, tmp, last, history >>

\* delete_reel(reel_id) of the hybrid backend is called.
StartDelete(reel_id) ==
  /\ CanStart
  /\ storage = "supabase_r2"
  /\ callers' = Append(callers,
       [op |-> "delete", pc |-> "select", with |-> Running, reel_id |-> reel_id,
        key |-> None, outcome |-> ""])
  /\ UNCHANGED << storage, apify, fs, rows, bucket, tmp, last, history >>

\* Line 298: get_metadata, from which the object key is taken.
StepSelect(p) ==
  /\ At(p, "delete", "select")
  /\ \E g \in { Hybrid_get_metadata(rows, callers[p].reel_id, "none") } :
       Goes(p, [callers[p] EXCEPT !.key = IF g.kind = "dict" THEN g.value["r2_video_key"]
                                          ELSE None,
                                  !.pc = "delete_row"])
  /\ UNCHANGED << storage, apify, fs, rows, bucket, tmp, last, history >>

\* Line 301: the row is deleted.
StepDeleteRow(p) ==
  /\ At(p, "delete", "delete_row")
  /\ rows' = Drop(rows, callers[p].reel_id)
  /\ Goes(p, IF Truthy(callers[p].key)
             THEN [callers[p] EXCEPT !.pc = "delete_object"]
             ELSE [callers[p] EXCEPT !.pc = "done", !.outcome = "return"])
  /\ UNCHANGED << storage, apify, fs, bucket, tmp, last, history >>

\* Lines 305-312: the object is deleted and True returned.
StepDeleteObject(p) ==
  /\ At(p, "delete", "delete_object")
  /\ bucket' = Drop(bucket, callers[p].key)
  /\ Goes(p, [callers[p] EXCEPT !.pc = "done", !.outcome = "return"])
  /\ UNCHANGED << storage, apify, fs, rows, tmp, last, history >>

Callers == 1..MaxCalls

NextSteps ==
  \/ \E u \in StepUrls : \E item \in StepItems : StartFetch(u, item)
  \/ \E k \in { KeyOf[u] : u \in StepUrls } : StartDelete(k)
  \/ \E p \in Callers : StepExists(p)
  \/ \E p \in Callers : StepGet(p)
  \/ \E p \in Callers : StepUpstream(p)
  \/ \E p \in Callers : StepMktemp(p)
  \/ \E p \in Callers : \E o \in DownloadOutcomes : StepDownload(p, o)
  \/ \E p \in Callers : StepUpload(p)
  \/ \E p \in Callers : StepUpsert(p)
  \/ \E p \in Callers : StepMkdir(p)
  \/ \E p \in Callers : StepOpen(p)
  \/ \E p \in Callers : StepDump(p)
  \/ \E p \in Callers : StepCopy(p)
  \/ \E p \in Callers : StepWrite(p)
  \/ \E p \in Callers : StepCleanup(p)
  \/ \E p \in Callers : Abort(p)
  \/ \E p \in Callers : AbortInDump(p)
  \/ \E p \in Callers : StepSelect(p)
  \/ \E p \in Callers : StepDeleteRow(p)
  \/ \E p \in Callers : StepDeleteObject(p)

SpecSteps == InitSteps /\ [][NextSteps]_vars

(***************************************************************************)
(* Properties of the fetch pipeline.                                       *)
(***************************************************************************)
\* C1: with a working storage backend and a succeeding upstream, the first
\* fetch for a key (since the key was last deleted) returns a record with
\* _from_cache = False after exactly one upstream call, and every later fetch
\* whose URL derives to the same key returns a record with _from_cache = True
\* without an upstream call.
C1_FirstFetchFreshLaterFromCache ==
  last.op = "fetch" =>
    /\ last.outcome = "return"
    /\ first => (last.record["_from_cache"] = FALSE /\ last.did.upstream_calls = 1)
    /\ ~first => (last.record["_from_cache"] = TRUE /\ last.did.upstream_calls = 0)

\* A later fetch, by the other URL form of the key, has been served.
C1_Witness ==
  /\ last.op = "fetch"
  /\ ~first
  /\ last.url = PostUrl
  /\ last.did.get_kind = "dict"

\* C2: after a fetch has returned or raised, no temporary file created during
\* that call is still in the temporary directory.
C2_NoTempFileRemains ==
  last.op = "fetch" => last.did.created \cap DOMAIN tmp = {}

\* C3: when the download succeeded, the staged temporary file is gone when the
\* fetch returns, whatever the save returned.
C3_StagedFileDeleted ==
  (last.op = "fetch" /\ last.did.staged # NoPath) =>
    /\ last.outcome = "return"
    /\ last.did.staged \notin DOMAIN tmp

\* A video was staged and the save that followed returned False.
C3_Witness ==
  /\ last.op = "fetch"
  /\ last.did.staged # NoPath
  /\ "save" \in last.did.failed

\* C4: if the upstream fetch succeeds and the download fails (download_video
\* returns False, or the staging raises), the fetch returns the fresh record
\* with no blob reference, and save_reel_data is called once, with no video
\* path; when that save succeeds the key has a stored metadata entry, without
\* a blob reference.
C4_DownloadFailureDegrades ==
  (last.op = "fetch" /\ last.did.failed \cap { "mktemp", "download" } # {}) =>
    /\ last.outcome = "return"
    /\ last.record["_from_cache"] = FALSE
    /\ Get(last.record, "r2_video_key", None) = None
    /\ Len(last.did.saves) = 1
    /\ last.did.saves[1][1] = last.reel_id
    /\ last.did.saves[1][2] = NoPath
    /\ last.did.saves[1][3] =>
         \E g \in { Storage_get_metadata(World, storage, last.reel_id, "none").ret } :
           /\ g.kind = "dict"
           /\ g.value["caption"] = last.record["caption"]
           /\ Get(g.value, "r2_video_key", None) = None

\* The download failed part-way and the metadata-only save succeeded.
C4_Witness ==
  /\ last.op = "fetch"
  /\ "download" \in last.did.failed
  /\ last.did.created \cap DOMAIN tmp # {}
  /\ last.did.saves[1][3]

\* C5: if the upstream fetch succeeds and the save fails, the fetch still
\* returns the freshly built record, with _from_cache = False.
C5_SaveFailureStillReturns ==
  (last.op = "fetch" /\ "save" \in last.did.failed) =>
    /\ last.outcome = "return"
    /\ last.did.upstream_calls = 1
    /\ last.record["_from_cache"] = FALSE
    /\ last.record["url"] = last.url
    /\ last.record["reel_id"] = last.reel_id

\* A save failed on a miss, with no video involved.
C5_Witness ==
  /\ last.op = "fetch"
  /\ "save" \in last.did.failed
  /\ last.did.downloads = 0

\* C6: if exists(key) is true and the stored metadata cannot be read, the
\* fetch treats the entry as a miss: it calls the upstream collaborator, and
\* raises nothing but an upstream failure.
C6_UnreadableEntryIsMiss ==
  (last.op = "fetch" /\ last.did.exists_ret /\ last.did.get_kind \in { "raise", "None" }) =>
    /\ last.did.upstream_calls = 1
    /\ last.outcome = "raise" => "upstream" \in last.did.failed

\* C7: a fetch in which the upstream collaborator fails or returns no item
\* raises the upstream error (HTTP 500), has called the upstream collaborator
\* once, has attempted no download and no save, has created no temporary file,
\* and has written nothing to the storage backend: the directories and files
\* under the cache root, the rows and the objects are as they were.
C7_UpstreamFailureSurfaced ==
  [][ (last'.op = "fetch" /\ "upstream" \in last'.did.failed) =>
        /\ last'.outcome = "raise"
        /\ last'.exc = "HTTPException"
        /\ last'.status = 500
        /\ last'.did.upstream_calls = 1
        /\ last'.did.downloads = 0
        /\ last'.did.saves = << >>
        /\ last'.did.created = {}
        /\ fs' = fs
        /\ rows' = rows
        /\ bucket' = bucket
        /\ tmp' = tmp ]_vars

(***************************************************************************)
(* Properties of the storage backends.                                     *)
(***************************************************************************)
\* The fields of a record that save_reel_data stores.
RecordFields ==
  { "url", "reel_id", "caption", "hashtags", "location", "likes", "timestamp",
    "owner_username", "video_url", "display_url" }

\* C8: after a successful save(key, B), whatever was saved for the key before,
\* get_metadata(key) returns B's value in every stored field; on the hybrid
\* backend the blob reference is the one of this save.
C8_SecondSaveReplacesFirst ==
  (last.op = "save" /\ last.ret) =>
    \E g \in { Storage_get_metadata(World, storage, last.reel_id, "none").ret } :
      /\ g.kind = "dict"
      /\ \A f \in RecordFields : g.value[f] = last.metadata[f]
      /\ storage = "supabase_r2" =>
           g.value["r2_video_key"] =
             (IF last.video_path \in DOMAIN tmp THEN last.reel_id \o ".mp4" ELSE None)

\* A record B was saved over a different record A of the same key.
C8_Witness ==
  /\ last.op = "save"
  /\ last.ret
  /\ last.before.kind = "dict"
  /\ \A f \in RecordFields \ { "url", "reel_id" } : last.before.value[f] # last.metadata[f]

\* C9: after a successful save(key, B) with no video path, get_video_url(key)
\* returns None, also when an earlier save for the key had a video.
C9_SaveWithoutVideoClearsUrl ==
  (last.op = "save" /\ last.ret /\ last.video_path = NoPath) =>
    \A u \in PublicUrls :
      Storage_get_video_url(World, storage, last.reel_id, u, "none").ret = None

\* C10: after a successful save(key, r, None), get_metadata(key) returns a
\* record with every field of r, equal to r's except _from_cache, with nothing
\* added but _cached_at and the blob reference, and the blob reference is None.
C10_SaveThenGetRoundTrip ==
  (last.op = "save" /\ last.ret /\ last.video_path = NoPath) =>
    \E g \in { Storage_get_metadata(World, storage, last.reel_id, "none").ret } :
      /\ g.kind = "dict"
      /\ DOMAIN last.metadata \subseteq DOMAIN g.value
      /\ \A f \in DOMAIN last.metadata \ { "_from_cache" } : g.value[f] = last.metadata[f]
      /\ DOMAIN g.value \ DOMAIN last.metadata \subseteq { "_cached_at", "r2_video_key" }
      /\ Get(g.value, "r2_video_key", None) = None

\* A record with no video was saved under a key that had no entry.
C10_Witness ==
  /\ last.op = "save"
  /\ last.ret
  /\ last.video_path = NoPath
  /\ last.before.kind = "None"
  /\ last.metadata["video_url"] = ""

\* C11: in the hybrid backend's save the upload precedes the upsert: a save
\* whose upload fails returns False and leaves the table (and the bucket) as
\* they were, and a save whose upsert fails has already put the object in the
\* bucket while the table is as it was.
C11_UploadBeforeUpsert ==
  [][ (last'.op = "save" /\ storage = "supabase_r2") =>
        /\ last'.failed = "upload" =>
              /\ ~last'.ret
              /\ rows' = rows
              /\ bucket' = bucket
        /\ (last'.failed = "upsert" /\ last'.video_path \in DOMAIN tmp) =>
              /\ ~last'.ret
              /\ rows' = rows
              /\ (last'.reel_id \o ".mp4") \in DOMAIN bucket' ]_vars

\* The upload failed in a save over a stored row, and the row is the one
\* stored before.
C11_Witness ==
  /\ last.op = "save"
  /\ storage = "supabase_r2"
  /\ last.failed = "upload"
  /\ last.before.kind = "dict"
  /\ last.before = Hybrid_get_metadata(rows, last.reel_id, "none")
  /\ \A f \in RecordFields \ { "url", "reel_id" } : last.before.value[f] # last.metadata[f]

\* C12: on the hybrid backend, in every state reached by saves and deletes
\* with any remote call failing, a row whose r2_video_key is not null names an
\* object that is in the bucket, under the key of the row, with the content a
\* save uploaded from the video path it was given.
C12_BlobRefNamesUploadedObject ==
  storage = "supabase_r2" =>
    \A k \in DOMAIN rows :
      Truthy(Get(rows[k], "r2_video_key", None)) =>
        /\ rows[k]["r2_video_key"] = k \o ".mp4"
        /\ rows[k]["r2_video_key"] \in DOMAIN bucket
        /\ \E path \in DOMAIN tmp : bucket[rows[k]["r2_video_key"]] = tmp[path]

\* A delete failed and left a row that has a blob reference.
C12_Witness ==
  /\ storage = "supabase_r2"
  /\ last.op = "delete"
  /\ ~last.ret
  /\ last.reel_id \in DOMAIN rows
  /\ Truthy(rows[last.reel_id]["r2_video_key"])

\* C13: after a delete that returned True for an entry that had a video,
\* exists(key) is False, get_video_url(key) is None and the object is no longer
\* in the bucket.
C13_DeleteRemovesEntryAndBlob ==
  (/\ last.op = "delete"
   /\ last.ret
   /\ last.before.kind = "dict"
   /\ Truthy(last.before.value["r2_video_key"])) =>
    /\ ~Storage_exists(World, storage, last.reel_id, "none").ret
    /\ \A u \in PublicUrls :
         Storage_get_video_url(World, storage, last.reel_id, u, "none").ret = None
    /\ last.before.value["r2_video_key"] \notin DOMAIN bucket

\* C14: after a delete on the hybrid backend of an entry that had a row and
\* an object, whatever it returned and whichever call failed, the row and the
\* object are both gone or both still there.
C14_DeleteIsAllOrNothing ==
  (/\ last.op = "delete"
   /\ last.before.kind = "dict"
   /\ Truthy(last.before.value["r2_video_key"])) =>
    (last.reel_id \in DOMAIN rows <=> last.before.value["r2_video_key"] \in DOMAIN bucket)

\* C15: on the hybrid backend a delete, no remote call failing, of a key that
\* has no row returns True and leaves the table and the bucket as they were;
\* and after any delete in which no call failed, a second delete of the same
\* key returns what the first returned and changes nothing.
C15_DeleteIsIdempotent ==
  [][ (last'.op = "delete" /\ last'.failed = "none") =>
        /\ last'.before.kind = "None" =>
              /\ last'.ret
              /\ rows' = rows
              /\ bucket' = bucket
        /\ Hybrid_delete_reel(rows', bucket', last'.reel_id, "none") =
              [rows |-> rows', bucket |-> bucket', ret |-> last'.ret, failed |-> "none"] ]_vars

\* A key with no row has been deleted while other entries are stored.
C15_Witness ==
  /\ last.op = "delete"
  /\ last.failed = "none"
  /\ last.before.kind = "None"
  /\ last.ret
  /\ rows # EmptyRows
  /\ bucket # EmptyBucket

\* C16: clear_cache with a reel_url and a storage backend returns a result
\* (it raises nothing), the result says whether the key of the URL had an
\* entry, and afterwards the key has no entry.
C16_ClearCacheDeletesByUrl ==
  (last.op = "clear_cache" /\ storage # "none" /\ last.url \in Urls) =>
    /\ last.outcome = "return"
    /\ last.success = last.had
    /\ ~Storage_exists(World, storage, KeyOf[last.url], "none").ret

\* C17: a call of exists(key) leaves the persisted state as it was: on the
\* local backend the directories and files under the cache root, on the
\* hybrid backend the rows and the objects.
C17_ExistsHasNoSideEffects ==
  [][ last'.op = "exists" => (fs' = fs /\ rows' = rows /\ bucket' = bucket) ]_vars

\* C18: in every state and for every key, get_metadata(key), its remote call
\* completing, raises nothing; it returns None when the key has no entry
\* (exists(key) is False), and when the key has an entry it returns a dict
\* with every stored field, all of them the fields of one saved record.
C18_GetMetadataFullOrNone ==
  \A k \in Keys :
    \E g \in { Storage_get_metadata(World, storage, k, "none").ret } :
      /\ g.kind \in { "None", "dict" }
      /\ ~Storage_exists(World, storage, k, "none").ret => g.kind = "None"
      /\ Storage_exists(World, storage, k, "none").ret =>
           /\ g.kind = "dict"
           /\ RecordFields \subseteq DOMAIN g.value
           /\ \E m \in StoreRecords(k) : \A f \in RecordFields : g.value[f] = m[f]

(***************************************************************************)
(* Properties of the key derivation.                                       *)
(***************************************************************************)
\* The hexadecimal digits.
HexAlphabet ==
  { "0", "1", "2", "3", "4", "5", "6", "7", "8", "9", "a", "b", "c", "d", "e", "f" }

\* C19: the key of a URL that holds an identifier after a /reel/ or /p/
\* marker is that identifier, whatever the scheme, the host and what follows
\* the identifier; so two calls on URLs with the same identifier return the
\* same key, and so do two calls on the same URL.
C19_SameIdentifierSameKey ==
  (last.op = "derive" /\ last.id # << >>) =>
    /\ last.key = last.id
    /\ last.prev.id = last.id => last.prev.key = last.key
    /\ last.prev.url = last.url => last.prev.key = last.key

\* Two calls on URLs that differ in scheme, host, marker and tail and hold
\* the same identifier.
C19_Witness ==
  /\ last.op = "derive"
  /\ last.id = << "a", "_", "b", "-", "9" >>
  /\ last.prev.id = last.id
  /\ last.url = << "h", "t", "t", "p", ":", "/", "/", "i", "g", ".", "m", "e",
                   "/", "p", "/", "a", "_", "b", "-", "9",
                   "/", "?", "n", "=", "/", "p", "/", "z" >>
  /\ last.prev.url = << "h", "t", "t", "p", "s", ":", "/", "/", "x", ".", "t", "e", "s", "t",
                        "/", "r", "e", "e", "l", "/", "a", "_", "b", "-", "9" >>

\* C20: the key of a URL with no identifier after a /reel/ or /p/ marker is
\* 12 characters long, each a hexadecimal digit, and a second call on the
\* same URL returns the same key; the key of https://x.test/share?id=999 is
\* the first 12 digits of its MD5, ec7ad0f1f6ae.
C20_HashKeyIsTwelveHexDigits ==
  (last.op = "derive" /\ last.id = << >>) =>
    /\ Len(last.key) = 12
    /\ \A i \in 1..Len(last.key) : last.key[i] \in HexAlphabet
    /\ last.prev.url = last.url => last.prev.key = last.key
    /\ last.url = Chars(ShareUrl) =>
         last.key = << "e", "c", "7", "a", "d", "0", "f", "1", "f", "6", "a", "e" >>

\* The same plain URL has been keyed twice in a row.
C20_Witness ==
  /\ last.op = "derive"
  /\ last.id = << >>
  /\ last.url = Chars(ShareUrl)
  /\ last.prev.url = last.url

(***************************************************************************)
(* Further properties of the fetch pipeline.                               *)
(***************************************************************************)
\* The fields of a ReelRecord as extract_reel_data names them.
ReelRecordFields == RecordFields \cup { "_from_cache" }

\* C22: every fetch either returns a record that has all the ReelRecord
\* fields or reports a failure of the upstream step (an HTTPException); it
\* ends in no other way.
C22_CompleteRecordOrUpstreamFailure ==
  last.op = "fetch" =>
    \/ last.outcome = "return" /\ ReelRecordFields \subseteq DOMAIN last.record
    \/ last.outcome = "raise" /\ last.exc = "HTTPException"

\* C23: a fetch served from the cache returns a record with _from_cache =
\* True and url equal to the URL of this call; every other field, and the set
\* of fields, is that of the record get_metadata returns for the key.
C23_HitMarksCacheAndCallerUrl ==
  (last.op = "fetch" /\ last.did.get_kind = "dict") =>
    /\ last.outcome = "return"
    /\ last.record["_from_cache"] = TRUE
    /\ last.record["url"] = last.url
    /\ \E g \in { Storage_get_metadata(World, storage, last.reel_id, "none").ret } :
         /\ g.kind = "dict"
         /\ DOMAIN last.record = DOMAIN g.value \cup { "_from_cache", "url" }
         /\ \A f \in DOMAIN g.value \ { "_from_cache", "url" } : last.record[f] = g.value[f]

\* A hit by the /p/ form of a URL on an entry stored under the /reel/ form.
C23_Witness ==
  /\ last.op = "fetch"
  /\ last.did.get_kind = "dict"
  /\ last.url = PostUrl
  /\ Storage_get_metadata(World, storage, last.reel_id, "none").ret.value["url"] = ReelUrl

\* C24: when the download of the video fails (before the file is opened, or
\* part-way through the chunks), no file is left at the temporary path the
\* fetch created for it.
C24_FailedDownloadLeavesNoFile ==
  (last.op = "fetch" /\ "download" \in last.did.failed) =>
    \A path \in last.did.created : ~PathExists(tmp, path)

\* C25: the service handles no fetch without a storage object: when the
\* backend could not be built at startup, no state in which a fetch has been
\* handled is reached.
C25_NoFetchWithoutStorage ==
  last.op = "fetch" => storage # "none"

\* The part of a path segment before its first character outside
\* [A-Za-z0-9_-].
LeadingRun(segment) ==
  SubSeq(segment, 1,
         CHOOSE n \in 0..Len(segment) :
           /\ \A i \in 1..n : IdChar(segment[i])
           /\ n < Len(segment) => ~IdChar(segment[n + 1]))

\* C27 as stated: the key of a URL with a marker is the whole path segment
\* after the marker, so two URLs whose segments differ have different keys.
C27_KeyIsWholeSegment ==
  (last.op = "derive" /\ last.segment # << >>) =>
    /\ last.key = last.segment
    /\ (last.prev.segment # << >> /\ last.prev.segment # last.segment) =>
         last.prev.key # last.key

\* C27 amended: the key of a URL with a marker is the part of the segment
\* after the marker up to its first character outside [A-Za-z0-9_-]; it is
\* the whole segment when the segment has no such character, and two URLs
\* have different keys when these parts of their segments differ.
C27_KeyIsIdentifierRun ==
  (last.op = "derive" /\ last.segment # << >>) =>
    /\ last.key = LeadingRun(last.segment)
    /\ (\A i \in 1..Len(last.segment) : IdChar(last.segment[i])) => last.key = last.segment
    /\ (/\ last.prev.segment # << >>
        /\ LeadingRun(last.prev.segment) # LeadingRun(last.segment)) =>
         last.prev.key # last.key

\* Two URLs whose segments differ after the identifier have the same key.
C27_Witness ==
  /\ last.op = "derive"
  /\ last.segment = << "A", "B", "C", "1", "2", "3", ".", "C" >>
  /\ last.prev.segment = << "A", "B", "C", "1", "2", "3", "#", "x" >>
  /\ last.key = last.prev.key

\* C30: a save that returns False for a key that had a readable entry leaves
\* the entry as it was: get_metadata returns what it returned before, and the
\* stored video (video.mp4 of the key, or the object <key>.mp4) is the one
\* stored before.
C30_FailedSaveKeepsEntry ==
  [][ (last'.op = "save" /\ ~last'.ret /\ last'.before.kind = "dict") =>
        /\ Storage_get_metadata([fs |-> fs', rows |-> rows', bucket |-> bucket', tmp |-> tmp'],
                                storage, last'.reel_id, "none").ret = last'.before
        /\ VideoFile(last'.reel_id) \in DOMAIN fs.files =>
              /\ VideoFile(last'.reel_id) \in DOMAIN fs'.files
              /\ fs'.files[VideoFile(last'.reel_id)] = fs.files[VideoFile(last'.reel_id)]
        /\ (last'.reel_id \o ".mp4") \in DOMAIN bucket =>
              /\ (last'.reel_id \o ".mp4") \in DOMAIN bucket'
              /\ bucket'[last'.reel_id \o ".mp4"] = bucket[last'.reel_id \o ".mp4"] ]_vars

(***************************************************************************)
(* Properties of calls that run at the same time.                          *)
(***************************************************************************)
\* Calls p and q were in progress at the same time.
Concurrent(p, q) == q \in callers[p].with \/ p \in callers[q].with

\* The call is a fetch that missed, staged its video and saved.
SavedWithVideo(p) ==
  /\ callers[p].op = "fetch"
  /\ callers[p].pc = "done"
  /\ callers[p].outcome = "return"
  /\ callers[p].upstream_calls = 1
  /\ callers[p].video_path # NoPath

\* The video stored for the key, None when there is none.
StoredVideo(reel_id) ==
  IF storage = "local"
  THEN IF VideoFile(reel_id) \in DOMAIN fs.files THEN fs.files[VideoFile(reel_id)] ELSE None
  ELSE IF (reel_id \o ".mp4") \in DOMAIN bucket THEN bucket[reel_id \o ".mp4"] ELSE None

\* The entry stored for the key is the one the save of call p wrote: its
\* record in every field, and its video.
EntryIsFrom(p) ==
  \E g \in { Storage_get_metadata(World, storage, callers[p].reel_id, "none").ret } :
    /\ g.kind = "dict"
    /\ \A f \in RecordFields : g.value[f] = callers[p].record[f]
    /\ StoredVideo(callers[p].reel_id) = Whole(callers[p].record["video_url"])

\* C21: when two fetches of one key ran at the same time, both missed, both
\* staged their video and both saved, and no other call was made, both have
\* returned a record with every field, and the stored entry (metadata and
\* video) is wholly the one of one of the two saves.
C21_ConcurrentMissesStoreOneSave ==
  ( /\ Len(callers) = 2
    /\ Concurrent(1, 2)
    /\ SavedWithVideo(1)
    /\ SavedWithVideo(2)
    /\ callers[1].reel_id = callers[2].reel_id ) =>
      /\ \A p \in 1..2 : ReelRecordFields \subseteq DOMAIN callers[p].record
      /\ \E p \in 1..2 : EntryIsFrom(p)

\* C26: a fetch that was aborted after it created its temporary file has
\* left no file at that path.
C26_AbortReleasesTempFile ==
  \A p \in DOMAIN callers :
    (callers[p].op = "fetch" /\ callers[p].outcome = "abort") =>
      ~PathExists(tmp, callers[p].created)

\* C28: once a delete of a key and a fetch that saved the key with its video
\* on the hybrid backend, run at the same time with no other call in
\* progress beside them, have both finished, the row of the key, if there
\* is one, names no object that is absent from the bucket.
C28_DeleteAndSaveLeaveNoDanglingRef ==
  \A p, q \in DOMAIN callers :
    ( /\ storage = "supabase_r2"
      /\ \A o \in DOMAIN callers : callers[o].pc = "done" /\ callers[o].outcome = "return"
      /\ callers[p].op = "delete"
      /\ SavedWithVideo(q)
      /\ callers[q].reel_id = callers[p].reel_id
      /\ Concurrent(p, q)
      /\ \A o \in DOMAIN callers \ { p, q } : ~Concurrent(o, p) /\ ~Concurrent(o, q) ) =>
        \A k \in DOMAIN rows :
          Truthy(rows[k]["r2_video_key"]) => rows[k]["r2_video_key"] \in DOMAIN bucket

\* C29: on the local backend, a fetch whose exists returned True while
\* another fetch of the same key was in progress, with no call aborted,
\* gets a record from get_metadata and does not fail with a read error.
C29_LocalReaderSeesWholeEntry ==
  \A p \in DOMAIN callers :
    ( /\ storage = "local"
      /\ \A q \in DOMAIN callers : callers[q].op = "fetch" /\ callers[q].outcome # "abort"
      /\ callers[p].exists_ret
      /\ callers[p].pc \notin { "exists", "get" }
      /\ \E q \in DOMAIN callers :
            q # p /\ Concurrent(p, q) /\ callers[q].reel_id = callers[p].reel_id ) =>
        /\ callers[p].get_kind = "dict"
        /\ callers[p].outcome # "JSONDecodeError"
        /\ callers[p].outcome = "return" => RecordFields \subseteq DOMAIN callers[p].record

(***************************************************************************)
(* Properties of the service across restarts.                              *)
(***************************************************************************)
\* The backend in use holds a readable entry for the key.
Cached(reel_id) ==
  /\ storage # "none"
  /\ Storage_exists(World, storage, reel_id, "none").ret
  /\ \E g \in { Storage_get_metadata(World, storage, reel_id, "none").ret } :
       g.kind = "dict" /\ DOMAIN g.value # {}

\* C31: a fetch of a key whose entry the backend holds, with no storage call
\* failing, returns a record with _from_cache = True, whether or not the
\* upstream client is configured.
C31_HitNeedsNoUpstream ==
  [][ ( /\ last' # last
        /\ last'.op = "fetch"
        /\ last'.did.failed = {}
        /\ Cached(last'.reel_id) ) =>
          /\ last'.outcome = "return"
          /\ last'.record["_from_cache"] = TRUE ]_vars

(***************************************************************************)
(* Properties of the hybrid backend when no remote call fails.             *)
(***************************************************************************)
\* C32: after any sequence of successful saves and deletes on the hybrid
\* backend, every object of the bucket is the one named by r2_video_key in
\* the row of its key.
C32_NoOrphanedObject ==
  \A reel_id \in Keys :
    (reel_id \o ".mp4") \in DOMAIN bucket =>
      /\ reel_id \in DOMAIN rows
      /\ rows[reel_id]["r2_video_key"] = reel_id \o ".mp4"
====
